---- MODULE Spec2Model ----
(***************************************************************************)
(* A model of the insideschools forum: the relational schema with its      *)
(* constraints, foreign keys, row-level-security policies and triggers     *)
(* (the two SQL migrations), the route table and the AuthGuard component.  *)
(*                                                                         *)
(* A request to the store is one action.  Its outcome is computed the way  *)
(* PostgreSQL computes it: row-level-security first (USING filters the     *)
(* rows an UPDATE/DELETE sees, WITH CHECK rejects a new row), then         *)
(* NOT NULL / CHECK constraints, then UNIQUE, then the foreign keys, and   *)
(* the ON DELETE actions of the foreign keys run with a delete.  The       *)
(* response of the last request is kept in resp.                           *)
(***************************************************************************)
EXTENDS Integers, Sequences, FiniteSets, TLC

\* ---------------------------------------------------------------- bounds
\* How many rows each table ever receives (ids are never reused, as with
\* gen_random_uuid()).
MaxUsers == 2
MaxSchools == 2
MaxLinks == 2
MaxPosts == 2
MaxVotes == 2
\* The rows of a table that a specification only needs some row of.
Few == 1
MaxTime == 2

\* SQL NULL for an id-valued column, and auth.uid() of a caller with no session.
NULL == 0

VARIABLES
    users,          \* auth.users: the ids of the identities
    profiles,       \* public.profiles rows
    schools,        \* public.schools rows
    user_schools,   \* public.user_schools rows
    posts,          \* public.posts rows
    comments,       \* public.comments rows
    votes,          \* public.votes rows
    seq,            \* the next fresh id of each table
    now,            \* the store's clock, now()
    resp,           \* the response to the last request
    pathname,       \* location.pathname, as its segments
    requested,      \* the pathname the visitor last asked the browser for
    authSession,    \* the auth client's current session: NULL or the user's id
    guard,          \* the mounted AuthGuard: its session and loading state
    inflight,       \* results not yet delivered to AuthGuard's callbacks
    form,           \* the state of the CreatePost component
    view,           \* the state of the mounted Home, Profile or SchoolDetail
    replies,        \* responses not yet delivered to the pages' continuations
    step            \* the last step of a page: handler, notifications, request

dbVars == <<users, profiles, schools, user_schools, posts, comments, votes, seq, now, resp>>

pageVars == <<form, view, replies, step>>

clientVars == <<pathname, requested, authSession, guard, inflight, pageVars>>

\* The tables, without the bookkeeping.
tables == <<users, profiles, schools, user_schools, posts, comments, votes>>

vars == <<dbVars, clientVars>>

\* ------------------------------------------------------------ text values
\* Text is a sequence of characters, so that split_part can cut it.
\* A nullable text is None or Some(text).
None == <<>>

Some(x) == <<x>>

Min(S) == CHOOSE x \in S : \A y \in S : x <= y

\* split_part(s, '@', 1): the text before the first '@', all of s when it has none.
SplitPartAt1(s) ==
    LET at == {i \in 1..Len(s) : s[i] = "@"}
    IN  IF at = {} THEN s ELSE SubSeq(s, 1, Min(at) - 1)

\* COALESCE(a, b) of two nullable values.
Coalesce(a, b) == IF a # None THEN a ELSE b

\* new.raw_user_meta_data->>'username': NULL when the key is absent.
\* split_part of a NULL email is NULL.
HandleNewUserUsernameEmailOnly(email, meta) ==
    IF email = None THEN None ELSE Some(SplitPartAt1(email[1]))

HandleNewUserUsername(email, meta) ==
    Coalesce(meta, IF email = None THEN None ELSE Some(SplitPartAt1(email[1])))

\* ------------------------------------------------------------- enumerations
StatusValues == {"current", "past"}

PostTypeValues == {"pro", "con", "general"}

VoteTypeValues == {"upvote", "downvote"}

\* ----------------------------------------------------------------- policies
\* TO authenticated: the caller has a session; auth.uid() is then not NULL.
Authenticated(uid) == uid # NULL

\* schools: INSERT WITH CHECK (auth.uid() = created_by); no UPDATE or DELETE
\* policy, so with row level security enabled no row is visible to them.

\* "Anyone can view ...": FOR SELECT USING (true), for every role.
SchoolsSelectUsing(uid, row) == TRUE

ProfilesSelectUsing(uid, row) == TRUE

UserSchoolsSelectUsing(uid, row) == TRUE

PostsSelectUsing(uid, row) == TRUE

CommentsSelectUsing(uid, row) == TRUE

VotesSelectUsing(uid, row) == TRUE

SchoolsInsertCheck(uid, row) ==
    Authenticated(uid) /\ row.created_by # NULL /\ uid = row.created_by

SchoolsUpdateUsingCreator(uid, row) == Authenticated(uid) /\ uid = row.created_by

SchoolsUpdateUsing(uid, row) == FALSE

SchoolsDeleteUsing(uid, row) == FALSE

\* profiles: INSERT WITH CHECK (auth.uid() = id); UPDATE USING (auth.uid() = id),
\* which is also the check of the updated row; no DELETE policy.
ProfilesInsertCheck(uid, row) == Authenticated(uid) /\ uid = row.id

ProfilesUpdateUsing(uid, row) == Authenticated(uid) /\ uid = row.id

ProfilesDeleteUsingOwner(uid, row) == Authenticated(uid) /\ uid = row.id

ProfilesDeleteUsing(uid, row) == FALSE

\* user_schools, posts, comments, votes: auth.uid() = user_id for INSERT
\* (WITH CHECK), UPDATE and DELETE (USING).
UserSchoolsInsertCheck(uid, row) == Authenticated(uid) /\ uid = row.user_id

UserSchoolsUpdateUsing(uid, row) == Authenticated(uid) /\ uid = row.user_id

UserSchoolsDeleteUsingAnyone(uid, row) == Authenticated(uid)

UserSchoolsDeleteUsing(uid, row) == Authenticated(uid) /\ uid = row.user_id

PostsInsertCheck(uid, row) == Authenticated(uid) /\ uid = row.user_id

PostsUpdateUsingAnyone(uid, row) == Authenticated(uid)

PostsUpdateUsing(uid, row) == Authenticated(uid) /\ uid = row.user_id

PostsDeleteUsing(uid, row) == Authenticated(uid) /\ uid = row.user_id

CommentsInsertCheck(uid, row) == Authenticated(uid) /\ uid = row.user_id

CommentsUpdateUsing(uid, row) == Authenticated(uid) /\ uid = row.user_id

CommentsDeleteUsing(uid, row) == Authenticated(uid) /\ uid = row.user_id

VotesInsertCheck(uid, row) == Authenticated(uid) /\ uid = row.user_id

VotesUpdateUsing(uid, row) == Authenticated(uid) /\ uid = row.user_id

VotesDeleteUsing(uid, row) == Authenticated(uid) /\ uid = row.user_id

\* -------------------------------------------------------------- constraints
\* Each says whether `row` may stand in `rows`, where `rows` holds the other
\* rows of the table (the row being updated is left out by the caller).

\* schools.name TEXT NOT NULL UNIQUE
SchoolsNameUniqueDropped(rows, row) == TRUE

SchoolsNameUnique(rows, row) == \A r \in rows : r.name # row.name

\* schools.created_by REFERENCES auth.users(id), nullable
SchoolsCreatedByFk(row) == row.created_by = NULL \/ row.created_by \in users

\* profiles.id PRIMARY KEY REFERENCES auth.users(id)
ProfilesPkey(rows, row) == \A r \in rows : r.id # row.id

ProfilesIdFk(row) == row.id \in users

\* profiles.username TEXT UNIQUE NOT NULL
ProfilesUsernameNotNull(row) == row.username # None

ProfilesUsernameUniqueDropped(rows, row) == TRUE

ProfilesUsernameUnique(rows, row) == \A r \in rows : r.username # row.username

\* user_schools: CHECK (status IN ('current', 'past')), UNIQUE(user_id, school_id, status)
UserSchoolsStatusCheck(row) == row.status \in StatusValues

UserSchoolsUniqueDropped(rows, row) == TRUE

UserSchoolsUnique(rows, row) ==
    \A r \in rows :
        ~(r.user_id = row.user_id /\ r.school_id = row.school_id /\ r.status = row.status)

\* user_id REFERENCES public.profiles(id), school_id REFERENCES public.schools(id),
\* post_id REFERENCES public.posts(id)
ProfileFk(user_id) == \E p \in profiles : p.id = user_id

SchoolFk(school_id) == \E s \in schools : s.id = school_id

\* Variant: post_id without REFERENCES.
PostFkDropped(post_id) == TRUE

PostFk(post_id) == \E p \in posts : p.id = post_id

\* posts: CHECK (post_type IN ('pro', 'con', 'general'))
PostsTypeCheckDropped(row) == TRUE

PostsTypeCheck(row) == row.post_type \in PostTypeValues

\* votes: CHECK (vote_type IN ('upvote', 'downvote')), UNIQUE(post_id, user_id)
VotesTypeCheck(row) == row.vote_type \in VoteTypeValues

VotesUniqueDropped(rows, row) == TRUE

VotesUnique(rows, row) ==
    \A r \in rows : ~(r.post_id = row.post_id /\ r.user_id = row.user_id)

\* ---------------------------------------------------------- ON DELETE actions
\* What is left of `rows` when the referenced rows with the given ids go.

\* schools.created_by ... ON DELETE SET NULL
SchoolsCreatedByOnDeleteCascade(rows, uids) == {r \in rows : r.created_by \notin uids}

SchoolsCreatedByOnDelete(rows, uids) ==
    {IF r.created_by \in uids THEN [r EXCEPT !.created_by = NULL] ELSE r : r \in rows}

\* profiles.id ... REFERENCES auth.users(id) ON DELETE CASCADE
ProfilesIdOnDelete(rows, uids) == {r \in rows : r.id \notin uids}

\* user_schools.user_id / school_id ... ON DELETE CASCADE
UserSchoolsUserIdOnDelete(rows, pids) == {r \in rows : r.user_id \notin pids}

UserSchoolsSchoolIdOnDelete(rows, sids) == {r \in rows : r.school_id \notin sids}

\* posts.user_id / school_id ... ON DELETE CASCADE
PostsUserIdOnDelete(rows, pids) == {r \in rows : r.user_id \notin pids}

PostsSchoolIdOnDeleteNoAction(rows, sids) == rows

PostsSchoolIdOnDelete(rows, sids) == {r \in rows : r.school_id \notin sids}

\* comments.post_id / user_id ... ON DELETE CASCADE
CommentsPostIdOnDelete(rows, postids) == {r \in rows : r.post_id \notin postids}

CommentsUserIdOnDelete(rows, pids) == {r \in rows : r.user_id \notin pids}

\* votes.post_id / user_id ... ON DELETE CASCADE
VotesPostIdOnDeleteNoAction(rows, postids) == rows

VotesPostIdOnDelete(rows, postids) == {r \in rows : r.post_id \notin postids}

VotesUserIdOnDelete(rows, pids) == {r \in rows : r.user_id \notin pids}

Ids(rows) == {r.id : r \in rows}

\* The tables after the identities dU, the profiles dPr, the schools dS and the
\* posts dP are deleted and every ON DELETE action has run.
AfterDelete(dU, dPr, dS, dP) ==
    LET profiles2 == ProfilesIdOnDelete({p \in profiles : p.id \notin dPr}, dU)
        goneProfiles == Ids(profiles) \ Ids(profiles2)
        schools2 == SchoolsCreatedByOnDelete({s \in schools : s.id \notin dS}, dU)
        goneSchools == Ids(schools) \ Ids(schools2)
        posts2 == PostsSchoolIdOnDelete(
                      PostsUserIdOnDelete({p \in posts : p.id \notin dP}, goneProfiles),
                      goneSchools)
        gonePosts == Ids(posts) \ Ids(posts2)
    IN  [users |-> users \ dU,
         profiles |-> profiles2,
         schools |-> schools2,
         user_schools |-> UserSchoolsSchoolIdOnDelete(
                              UserSchoolsUserIdOnDelete(user_schools, goneProfiles),
                              goneSchools),
         posts |-> posts2,
         comments |-> CommentsPostIdOnDelete(
                          CommentsUserIdOnDelete(comments, goneProfiles), gonePosts),
         votes |-> VotesPostIdOnDelete(
                       VotesUserIdOnDelete(votes, goneProfiles), gonePosts)]

\* How many rows of each table a delete took with it, kept with its response.
Removed(d) ==
    [profiles |-> Cardinality(profiles \ d.profiles),
     schools |-> Cardinality(Ids(schools) \ Ids(d.schools)),
     user_schools |-> Cardinality(user_schools \ d.user_schools),
     posts |-> Cardinality(posts \ d.posts),
     comments |-> Cardinality(comments \ d.comments),
     votes |-> Cardinality(votes \ d.votes)]

ApplyDelete(d) ==
    /\ users' = d.users
    /\ profiles' = d.profiles
    /\ schools' = d.schools
    /\ user_schools' = d.user_schools
    /\ posts' = d.posts
    /\ comments' = d.comments
    /\ votes' = d.votes

\* ------------------------------------------------------------------ responses
\* op: the request; uid: auth.uid() of the caller; status: "ok" or the error
\* class; count: the rows written; id: the row the request names or creates;
\* row: the values the request carries (for a delete with ON DELETE actions:
\* Removed).
Response(op, uid, status, count, id, row) ==
    [op |-> op, uid |-> uid, status |-> status, count |-> count, id |-> id, row |-> row]

IntegrityErrors ==
    {"not_null_violation", "check_violation", "unique_violation", "foreign_key_violation"}

PolicyError == "rls_violation"

\* ------------------------------------------------------- signup and identities
\* INSERT INTO auth.users fires on_auth_user_created (AFTER INSERT, FOR EACH ROW)
\* once, in the inserting transaction.  handle_new_user is SECURITY DEFINER, so no
\* policy applies to its insert; an error it raises aborts the transaction.
HandleNewUserStatus(row) ==
    IF ~ProfilesUsernameNotNull(row) THEN "not_null_violation"
    ELSE IF ~ProfilesPkey(profiles, row) THEN "unique_violation"
    ELSE IF ~ProfilesUsernameUnique(profiles, row) THEN "unique_violation"
    ELSE "ok"

SignUp(email, meta) ==
    LET id == seq.users
        row == [id |-> id, username |-> HandleNewUserUsername(email, meta)]
        st == HandleNewUserStatus(row)
    IN  /\ IF st = "ok"
           THEN /\ users' = users \cup {id}
                /\ profiles' = profiles \cup {row}
                /\ seq' = [seq EXCEPT !.users = id + 1]
           ELSE UNCHANGED <<users, profiles, seq>>
        /\ resp' = Response("signup", NULL, st, IF st = "ok" THEN 1 ELSE 0, id,
                            [email |-> email, meta |-> meta])
        /\ UNCHANGED <<schools, user_schools, posts, comments, votes, now>>

\* The identity is deleted (by the auth service; no policy applies).
DeleteUser(id) ==
    /\ id \in users
    /\ ApplyDelete(AfterDelete({id}, {}, {}, {}))
    /\ resp' = Response("delete_user", NULL, "ok", 1, id,
                            Removed(AfterDelete({id}, {}, {}, {})))
    /\ UNCHANGED <<seq, now>>

\* ------------------------------------------------------------------- profiles
InsertProfileStatus(uid, row) ==
    IF ~ProfilesInsertCheck(uid, row) THEN PolicyError
    ELSE IF ~ProfilesUsernameNotNull(row) THEN "not_null_violation"
    ELSE IF ~ProfilesPkey(profiles, row) THEN "unique_violation"
    ELSE IF ~ProfilesUsernameUnique(profiles, row) THEN "unique_violation"
    ELSE IF ~ProfilesIdFk(row) THEN "foreign_key_violation"
    ELSE "ok"

InsertProfile(uid, id, username) ==
    LET row == [id |-> id, username |-> username]
        st == InsertProfileStatus(uid, row)
    IN  /\ profiles' = IF st = "ok" THEN profiles \cup {row} ELSE profiles
        /\ resp' = Response("insert_profile", uid, st, IF st = "ok" THEN 1 ELSE 0, id, row)
        /\ UNCHANGED <<users, schools, user_schools, posts, comments, votes, seq, now>>

\* No ON UPDATE action is declared on the keys that reference profiles(id), so
\* an id that rows still reference cannot change.
ProfileReferenced(id) ==
    \E r \in user_schools \cup posts \cup comments \cup votes : r.user_id = id

UpdateProfileStatus(uid, old, new) ==
    LET others == profiles \ {old}
    IN  IF ~ProfilesUpdateUsing(uid, new) THEN PolicyError
        ELSE IF ~ProfilesUsernameNotNull(new) THEN "not_null_violation"
        ELSE IF ~ProfilesPkey(others, new) THEN "unique_violation"
        ELSE IF ~ProfilesUsernameUnique(others, new) THEN "unique_violation"
        ELSE IF ~ProfilesIdFk(new) THEN "foreign_key_violation"
        ELSE IF new.id # old.id /\ ProfileReferenced(old.id) THEN "foreign_key_violation"
        ELSE "ok"

\* UPDATE profiles SET id = new_id, username = new_username WHERE id = id
UpdateProfile(uid, id, new_id, new_username) ==
    LET seen == {r \in profiles : r.id = id /\ ProfilesUpdateUsing(uid, r)}
        new == [id |-> new_id, username |-> new_username]
    IN  /\ IF seen = {}
           THEN /\ profiles' = profiles
                /\ resp' = Response("update_profile", uid, "ok", 0, id, new)
           ELSE LET old == CHOOSE r \in seen : TRUE
                    st == UpdateProfileStatus(uid, old, new)
                IN  /\ profiles' = IF st = "ok" THEN (profiles \ {old}) \cup {new}
                                   ELSE profiles
                    /\ resp' = Response("update_profile", uid, st,
                                        IF st = "ok" THEN 1 ELSE 0, id, new)
        /\ UNCHANGED <<users, schools, user_schools, posts, comments, votes, seq, now>>

\* DELETE FROM profiles WHERE id = id through the policy-gated interface.
DeleteProfile(uid, id) ==
    LET seen == {r \in profiles : r.id = id /\ ProfilesDeleteUsing(uid, r)}
    IN  /\ ApplyDelete(AfterDelete({}, Ids(seen), {}, {}))
        /\ resp' = Response("delete_profile", uid, "ok", Cardinality(seen), id,
                            Removed(AfterDelete({}, Ids(seen), {}, {})))
        /\ UNCHANGED <<seq, now>>

\* DELETE FROM profiles WHERE id = id by a role that bypasses row level security:
\* the identity stays.
AdminDeleteProfile(id) ==
    /\ id \in Ids(profiles)
    /\ ApplyDelete(AfterDelete({}, {id}, {}, {}))
    /\ resp' = Response("admin_delete_profile", NULL, "ok", 1, id,
                            Removed(AfterDelete({}, {id}, {}, {})))
    /\ UNCHANGED <<seq, now>>

\* -------------------------------------------------------------------- schools
InsertSchoolStatus(uid, row) ==
    IF ~SchoolsInsertCheck(uid, row) THEN PolicyError
    ELSE IF ~SchoolsNameUnique(schools, row) THEN "unique_violation"
    ELSE IF ~SchoolsCreatedByFk(row) THEN "foreign_key_violation"
    ELSE "ok"

\* supabase.from("schools").insert({name, location, created_by}); the id is the
\* column default.
InsertSchool(uid, name, location, created_by) ==
    LET row == [id |-> seq.schools, name |-> name, location |-> location,
                created_by |-> created_by]
        st == InsertSchoolStatus(uid, row)
    IN  /\ schools' = IF st = "ok" THEN schools \cup {row} ELSE schools
        /\ seq' = IF st = "ok" THEN [seq EXCEPT !.schools = @ + 1] ELSE seq
        /\ resp' = Response("insert_school", uid, st, IF st = "ok" THEN 1 ELSE 0,
                            IF st = "ok" THEN row.id ELSE NULL, row)
        /\ UNCHANGED <<users, profiles, user_schools, posts, comments, votes, now>>

UpdateSchoolStatus(uid, old, new) ==
    IF ~SchoolsUpdateUsing(uid, new) THEN PolicyError
    ELSE IF ~SchoolsNameUnique(schools \ {old}, new) THEN "unique_violation"
    ELSE "ok"

\* UPDATE schools SET name = .., location = .. WHERE id = id
UpdateSchool(uid, id, new_name, new_location) ==
    LET seen == {r \in schools : r.id = id /\ SchoolsUpdateUsing(uid, r)}
        patch == [name |-> new_name, location |-> new_location]
    IN  /\ IF seen = {}
           THEN /\ schools' = schools
                /\ resp' = Response("update_school", uid, "ok", 0, id, patch)
           ELSE LET old == CHOOSE r \in seen : TRUE
                    new == [old EXCEPT !.name = new_name, !.location = new_location]
                    st == UpdateSchoolStatus(uid, old, new)
                IN  /\ schools' = IF st = "ok" THEN (schools \ {old}) \cup {new}
                                  ELSE schools
                    /\ resp' = Response("update_school", uid, st,
                                        IF st = "ok" THEN 1 ELSE 0, id, patch)
        /\ UNCHANGED <<users, profiles, user_schools, posts, comments, votes, seq, now>>

\* DELETE FROM schools WHERE id = id through the policy-gated interface.
DeleteSchool(uid, id) ==
    LET seen == {r \in schools : r.id = id /\ SchoolsDeleteUsing(uid, r)}
    IN  /\ ApplyDelete(AfterDelete({}, {}, Ids(seen), {}))
        /\ resp' = Response("delete_school", uid, "ok", Cardinality(seen), id,
                            Removed(AfterDelete({}, {}, Ids(seen), {})))
        /\ UNCHANGED <<seq, now>>

\* DELETE FROM schools WHERE id = id by a role that bypasses row level security.
AdminDeleteSchool(id) ==
    /\ id \in Ids(schools)
    /\ ApplyDelete(AfterDelete({}, {}, {id}, {}))
    /\ resp' = Response("admin_delete_school", NULL, "ok", 1, id,
                            Removed(AfterDelete({}, {}, {id}, {})))
    /\ UNCHANGED <<seq, now>>

\* --------------------------------------------------------------- user_schools
InsertUserSchoolStatus(uid, row) ==
    IF ~UserSchoolsInsertCheck(uid, row) THEN PolicyError
    ELSE IF ~UserSchoolsStatusCheck(row) THEN "check_violation"
    ELSE IF ~UserSchoolsUnique(user_schools, row) THEN "unique_violation"
    ELSE IF ~(ProfileFk(row.user_id) /\ SchoolFk(row.school_id)) THEN "foreign_key_violation"
    ELSE "ok"

InsertUserSchool(uid, user_id, school_id, status) ==
    LET row == [id |-> seq.user_schools, user_id |-> user_id, school_id |-> school_id,
                status |-> status]
        st == InsertUserSchoolStatus(uid, row)
    IN  /\ user_schools' = IF st = "ok" THEN user_schools \cup {row} ELSE user_schools
        /\ seq' = IF st = "ok" THEN [seq EXCEPT !.user_schools = @ + 1] ELSE seq
        /\ resp' = Response("insert_user_school", uid, st, IF st = "ok" THEN 1 ELSE 0,
                            IF st = "ok" THEN row.id ELSE NULL, row)
        /\ UNCHANGED <<users, profiles, schools, posts, comments, votes, now>>

UpdateUserSchoolStatus(uid, old, new) ==
    LET others == user_schools \ {old}
    IN  IF ~UserSchoolsUpdateUsing(uid, new) THEN PolicyError
        ELSE IF ~UserSchoolsStatusCheck(new) THEN "check_violation"
        ELSE IF ~UserSchoolsUnique(others, new) THEN "unique_violation"
        ELSE IF ~(ProfileFk(new.user_id) /\ SchoolFk(new.school_id))
             THEN "foreign_key_violation"
        ELSE "ok"

\* UPDATE user_schools SET user_id = .., status = .. WHERE id = id
UpdateUserSchool(uid, id, new_user_id, new_status) ==
    LET seen == {r \in user_schools : r.id = id /\ UserSchoolsUpdateUsing(uid, r)}
        patch == [user_id |-> new_user_id, status |-> new_status]
    IN  /\ IF seen = {}
           THEN /\ user_schools' = user_schools
                /\ resp' = Response("update_user_school", uid, "ok", 0, id, patch)
           ELSE LET old == CHOOSE r \in seen : TRUE
                    new == [old EXCEPT !.user_id = new_user_id, !.status = new_status]
                    st == UpdateUserSchoolStatus(uid, old, new)
                IN  /\ user_schools' = IF st = "ok" THEN (user_schools \ {old}) \cup {new}
                                       ELSE user_schools
                    /\ resp' = Response("update_user_school", uid, st,
                                        IF st = "ok" THEN 1 ELSE 0, id, patch)
        /\ UNCHANGED <<users, profiles, schools, posts, comments, votes, seq, now>>

DeleteUserSchool(uid, id) ==
    LET seen == {r \in user_schools : r.id = id /\ UserSchoolsDeleteUsing(uid, r)}
    IN  /\ user_schools' = user_schools \ seen
        /\ resp' = Response("delete_user_school", uid, "ok", Cardinality(seen), id, NULL)
        /\ UNCHANGED <<users, profiles, schools, posts, comments, votes, seq, now>>

\* ---------------------------------------------------------------------- posts
InsertPostStatus(uid, row) ==
    IF ~PostsInsertCheck(uid, row) THEN PolicyError
    ELSE IF ~PostsTypeCheck(row) THEN "check_violation"
    ELSE IF ~(ProfileFk(row.user_id) /\ SchoolFk(row.school_id)) THEN "foreign_key_violation"
    ELSE "ok"

\* supabase.from("posts").insert({user_id, school_id, title, content, post_type});
\* id, created_at and updated_at are the column defaults.
InsertPost(uid, user_id, school_id, title, content, post_type) ==
    LET row == [id |-> seq.posts, user_id |-> user_id, school_id |-> school_id,
                title |-> title, content |-> content, post_type |-> post_type,
                created_at |-> now, updated_at |-> now]
        st == InsertPostStatus(uid, row)
    IN  /\ posts' = IF st = "ok" THEN posts \cup {row} ELSE posts
        /\ seq' = IF st = "ok" THEN [seq EXCEPT !.posts = @ + 1] ELSE seq
        /\ resp' = Response("insert_post", uid, st, IF st = "ok" THEN 1 ELSE 0,
                            IF st = "ok" THEN row.id ELSE NULL, row)
        /\ UNCHANGED <<users, profiles, schools, user_schools, comments, votes, now>>

UpdateUpdatedAtColumnKeepsSupplied(new) == new

\* update_updated_at_column(), BEFORE UPDATE ... FOR EACH ROW
UpdateUpdatedAtColumn(new) == [new EXCEPT !.updated_at = now]

UpdatePostStatus(uid, old, new) ==
    IF ~PostsUpdateUsing(uid, new) THEN PolicyError
    ELSE IF ~PostsTypeCheck(new) THEN "check_violation"
    ELSE IF ~(ProfileFk(new.user_id) /\ SchoolFk(new.school_id)) THEN "foreign_key_violation"
    ELSE "ok"

\* UPDATE posts SET user_id = .., title = .., post_type = .., updated_at = ..
\* WHERE id = id
UpdatePost(uid, id, new_user_id, new_title, new_post_type, new_updated_at) ==
    LET seen == {r \in posts : r.id = id /\ PostsUpdateUsing(uid, r)}
        patch == [user_id |-> new_user_id, title |-> new_title,
                  post_type |-> new_post_type, updated_at |-> new_updated_at]
    IN  /\ IF seen = {}
           THEN /\ posts' = posts
                /\ resp' = Response("update_post", uid, "ok", 0, id, patch)
           ELSE LET old == CHOOSE r \in seen : TRUE
                    new == UpdateUpdatedAtColumn(
                               [old EXCEPT !.user_id = new_user_id, !.title = new_title,
                                           !.post_type = new_post_type,
                                           !.updated_at = new_updated_at])
                    st == UpdatePostStatus(uid, old, new)
                IN  /\ posts' = IF st = "ok" THEN (posts \ {old}) \cup {new} ELSE posts
                    /\ resp' = Response("update_post", uid, st,
                                        IF st = "ok" THEN 1 ELSE 0, id, patch)
        /\ UNCHANGED <<users, profiles, schools, user_schools, comments, votes, seq, now>>

\* DELETE FROM posts WHERE id = id
DeletePost(uid, id) ==
    LET seen == {r \in posts : r.id = id /\ PostsDeleteUsing(uid, r)}
    IN  /\ ApplyDelete(AfterDelete({}, {}, {}, Ids(seen)))
        /\ resp' = Response("delete_post", uid, "ok", Cardinality(seen), id,
                            Removed(AfterDelete({}, {}, {}, Ids(seen))))
        /\ UNCHANGED <<seq, now>>

\* ------------------------------------------------------------------- comments
InsertCommentStatus(uid, row) ==
    IF ~CommentsInsertCheck(uid, row) THEN PolicyError
    ELSE IF ~(PostFk(row.post_id) /\ ProfileFk(row.user_id)) THEN "foreign_key_violation"
    ELSE "ok"

InsertComment(uid, post_id, user_id, content) ==
    LET row == [id |-> seq.comments, post_id |-> post_id, user_id |-> user_id,
                content |-> content, created_at |-> now, updated_at |-> now]
        st == InsertCommentStatus(uid, row)
    IN  /\ comments' = IF st = "ok" THEN comments \cup {row} ELSE comments
        /\ seq' = IF st = "ok" THEN [seq EXCEPT !.comments = @ + 1] ELSE seq
        /\ resp' = Response("insert_comment", uid, st, IF st = "ok" THEN 1 ELSE 0,
                            IF st = "ok" THEN row.id ELSE NULL, row)
        /\ UNCHANGED <<users, profiles, schools, user_schools, posts, votes, now>>

UpdateCommentStatus(uid, old, new) ==
    IF ~CommentsUpdateUsing(uid, new) THEN PolicyError
    ELSE IF ~(PostFk(new.post_id) /\ ProfileFk(new.user_id)) THEN "foreign_key_violation"
    ELSE "ok"

\* UPDATE comments SET user_id = .., content = .., updated_at = .. WHERE id = id;
\* update_comments_updated_at runs update_updated_at_column() on the new row.
UpdateComment(uid, id, new_user_id, new_content, new_updated_at) ==
    LET seen == {r \in comments : r.id = id /\ CommentsUpdateUsing(uid, r)}
        patch == [user_id |-> new_user_id, content |-> new_content,
                  updated_at |-> new_updated_at]
    IN  /\ IF seen = {}
           THEN /\ comments' = comments
                /\ resp' = Response("update_comment", uid, "ok", 0, id, patch)
           ELSE LET old == CHOOSE r \in seen : TRUE
                    new == UpdateUpdatedAtColumn(
                               [old EXCEPT !.user_id = new_user_id,
                                           !.content = new_content,
                                           !.updated_at = new_updated_at])
                    st == UpdateCommentStatus(uid, old, new)
                IN  /\ comments' = IF st = "ok" THEN (comments \ {old}) \cup {new}
                                   ELSE comments
                    /\ resp' = Response("update_comment", uid, st,
                                        IF st = "ok" THEN 1 ELSE 0, id, patch)
        /\ UNCHANGED <<users, profiles, schools, user_schools, posts, votes, seq, now>>

\* The store's clock advances.
Tick ==
    /\ now' = now + 1
    /\ UNCHANGED <<users, profiles, schools, user_schools, posts, comments, votes, seq, resp>>

DeleteComment(uid, id) ==
    LET seen == {r \in comments : r.id = id /\ CommentsDeleteUsing(uid, r)}
    IN  /\ comments' = comments \ seen
        /\ resp' = Response("delete_comment", uid, "ok", Cardinality(seen), id, NULL)
        /\ UNCHANGED <<users, profiles, schools, user_schools, posts, votes, seq, now>>

\* ---------------------------------------------------------------------- votes
InsertVoteStatus(uid, row) ==
    IF ~VotesInsertCheck(uid, row) THEN PolicyError
    ELSE IF ~VotesTypeCheck(row) THEN "check_violation"
    ELSE IF ~VotesUnique(votes, row) THEN "unique_violation"
    ELSE IF ~(PostFk(row.post_id) /\ ProfileFk(row.user_id)) THEN "foreign_key_violation"
    ELSE "ok"

InsertVote(uid, post_id, user_id, vote_type) ==
    LET row == [id |-> seq.votes, post_id |-> post_id, user_id |-> user_id,
                vote_type |-> vote_type]
        st == InsertVoteStatus(uid, row)
    IN  /\ votes' = IF st = "ok" THEN votes \cup {row} ELSE votes
        /\ seq' = IF st = "ok" THEN [seq EXCEPT !.votes = @ + 1] ELSE seq
        /\ resp' = Response("insert_vote", uid, st, IF st = "ok" THEN 1 ELSE 0,
                            IF st = "ok" THEN row.id ELSE NULL, row)
        /\ UNCHANGED <<users, profiles, schools, user_schools, posts, comments, now>>

\* Variant: the policy is applied to the row as it was only.
UpdateVoteStatusOldRowOnly(uid, old, new) ==
    LET others == votes \ {old}
    IN  IF ~VotesTypeCheck(new) THEN "check_violation"
        ELSE IF ~VotesUnique(others, new) THEN "unique_violation"
        ELSE IF ~(PostFk(new.post_id) /\ ProfileFk(new.user_id)) THEN "foreign_key_violation"
        ELSE "ok"

UpdateVoteStatus(uid, old, new) ==
    LET others == votes \ {old}
    IN  IF ~VotesUpdateUsing(uid, new) THEN PolicyError
        ELSE IF ~VotesTypeCheck(new) THEN "check_violation"
        ELSE IF ~VotesUnique(others, new) THEN "unique_violation"
        ELSE IF ~(PostFk(new.post_id) /\ ProfileFk(new.user_id)) THEN "foreign_key_violation"
        ELSE "ok"

\* UPDATE votes SET post_id = .., vote_type = .. WHERE id = id
UpdateVote(uid, id, new_post_id, new_vote_type) ==
    LET seen == {r \in votes : r.id = id /\ VotesUpdateUsing(uid, r)}
        patch == [post_id |-> new_post_id, vote_type |-> new_vote_type]
    IN  /\ IF seen = {}
           THEN /\ votes' = votes
                /\ resp' = Response("update_vote", uid, "ok", 0, id, patch)
           ELSE LET old == CHOOSE r \in seen : TRUE
                    new == [old EXCEPT !.post_id = new_post_id, !.vote_type = new_vote_type]
                    st == UpdateVoteStatus(uid, old, new)
                IN  /\ votes' = IF st = "ok" THEN (votes \ {old}) \cup {new} ELSE votes
                    /\ resp' = Response("update_vote", uid, st,
                                        IF st = "ok" THEN 1 ELSE 0, id, patch)
        /\ UNCHANGED <<users, profiles, schools, user_schools, posts, comments, seq, now>>

\* UPDATE votes SET user_id = .. WHERE id = id
ReassignVote(uid, id, new_user_id) ==
    LET seen == {r \in votes : r.id = id /\ VotesUpdateUsing(uid, r)}
        patch == [user_id |-> new_user_id]
    IN  /\ IF seen = {}
           THEN /\ votes' = votes
                /\ resp' = Response("update_vote", uid, "ok", 0, id, patch)
           ELSE LET old == CHOOSE r \in seen : TRUE
                    new == [old EXCEPT !.user_id = new_user_id]
                    st == UpdateVoteStatus(uid, old, new)
                IN  /\ votes' = IF st = "ok" THEN (votes \ {old}) \cup {new} ELSE votes
                    /\ resp' = Response("update_vote", uid, st,
                                        IF st = "ok" THEN 1 ELSE 0, id, patch)
        /\ UNCHANGED <<users, profiles, schools, user_schools, posts, comments, seq, now>>

DeleteVote(uid, id) ==
    LET seen == {r \in votes : r.id = id /\ VotesDeleteUsing(uid, r)}
    IN  /\ votes' = votes \ seen
        /\ resp' = Response("delete_vote", uid, "ok", Cardinality(seen), id, NULL)
        /\ UNCHANGED <<users, profiles, schools, user_schools, posts, comments, seq, now>>

\* ---------------------------------------------------------------------- reads
TableNames == {"schools", "profiles", "user_schools", "posts", "comments", "votes"}

\* The rows of table t that the SELECT policy shows to uid.
Visible(uid, t) ==
    CASE t = "schools" -> {r \in schools : SchoolsSelectUsing(uid, r)}
      [] t = "profiles" -> {r \in profiles : ProfilesSelectUsing(uid, r)}
      [] t = "user_schools" -> {r \in user_schools : UserSchoolsSelectUsing(uid, r)}
      [] t = "posts" -> {r \in posts : PostsSelectUsing(uid, r)}
      [] t = "comments" -> {r \in comments : CommentsSelectUsing(uid, r)}
      [] t = "votes" -> {r \in votes : VotesSelectUsing(uid, r)}

SelectOp(t) ==
    CASE t = "schools" -> "select_schools"
      [] t = "profiles" -> "select_profiles"
      [] t = "user_schools" -> "select_user_schools"
      [] t = "posts" -> "select_posts"
      [] t = "comments" -> "select_comments"
      [] t = "votes" -> "select_votes"

\* supabase.from(t).select("*")
Select(uid, t) ==
    /\ resp' = Response(SelectOp(t), uid, "ok", Cardinality(Visible(uid, t)), NULL,
                        Visible(uid, t))
    /\ UNCHANGED <<users, profiles, schools, user_schools, posts, comments, votes, seq, now>>

\* --------------------------------------------------------------------- inputs
JaneAtExample ==
    <<"j", "a", "n", "e", "@", "e", "x", "a", "m", "p", "l", "e", ".", "c", "o", "m">>

JaneAtOther == <<"j", "a", "n", "e", "@", "o", "t", "h", "e", "r", ".", "o", "r", "g">>

BobAtExample == <<"b", "o", "b", "@", "e", "x", "a", "m", "p", "l", "e", ".", "c", "o", "m">>

Jane == <<"j", "a", "n", "e">>

Bob == <<"b", "o", "b">>

\* The emails and the 'username' metadata a signup may carry (None: no email,
\* no such key).
Emails == {Some(JaneAtExample), Some(JaneAtOther), Some(BobAtExample), None}

Metas == {None, Some(Jane), Some(Bob)}

Usernames == {Some(Jane), Some(Bob), None}

SchoolNames == {"Lincoln High", "Kennedy"}

StatusInputs == StatusValues \cup {"future"}


PostTypeInputs == PostTypeValues \cup {"rant"}

VoteTypeInputs == VoteTypeValues \cup {"meh"}


\* The ids a table has issued so far.
Issued(t) == 1..(seq[t] - 1)

\* auth.uid() of a caller: no session, or an identity that was issued an id (its
\* token outlives the identity's deletion).
Callers == {NULL} \cup Issued("users")

Paths ==
    {<<>>, <<"auth">>, <<"profile">>, <<"profile", "1">>, <<"create-post">>,
     <<"school", "1">>, <<"school">>, <<"school", "1", "edit">>, <<"nope">>}

SessionUsers == 1..MaxUsers

\* --------------------------------------------------------------------- routes
AuthPath == <<"auth">>

\* <Routes>: the element of the first route whose pattern matches the pathname.
MatchRoute(path) ==
    IF path = <<"auth">> THEN "Auth"
    ELSE IF path = <<>> THEN "Home"
    ELSE IF path = <<"profile">> THEN "Profile"
    ELSE IF Len(path) = 2 /\ path[1] = "profile" THEN "Profile"
    ELSE IF path = <<"create-post">> THEN "CreatePost"
    ELSE IF Len(path) = 2 /\ path[1] = "school" THEN "SchoolDetail"
    ELSE "NotFound"

\* The routes whose element is wrapped in <AuthGuard>.
Guarded(path) == MatchRoute(path) \in {"Home", "Profile", "CreatePost", "SchoolDetail"}

\* ------------------------------------------------------------------ AuthGuard
Unmounted == [mounted |-> FALSE, session |-> NULL, loading |-> TRUE]

\* useState(null), useState(true)
Mounted == [mounted |-> TRUE, session |-> NULL, loading |-> TRUE]

RedirectsWhenSignedIn(session, path) == session # NULL /\ path # AuthPath

\* Variant: the guard never navigates.
RedirectsNever(session, path) == FALSE

\* if (!session && location.pathname !== "/auth")
Redirects(session, path) == session = NULL /\ path # AuthPath

\* What AuthGuard renders.
Renders ==
    IF ~guard.mounted THEN "none"
    ELSE IF guard.loading THEN "loading"
    ELSE IF guard.session = NULL THEN "null"
    ELSE "children"

\* The body shared by the onAuthStateChange callback and the getSession
\* continuation, run with the result m: setSession, setLoading(false), and
\* navigate("/auth", { replace: true }) when there is no session.  At /auth no
\* guard is rendered: the guard unmounts and its cleanup unsubscribes, which
\* drops the events not yet delivered; a getSession promise cannot be cancelled.
OnSession(m) ==
    /\ m \in inflight
    /\ IF Redirects(m.session, m.pathname)
       THEN /\ pathname' = AuthPath
            /\ guard' = Unmounted
            /\ inflight' = {x \in inflight \ {m} : x.kind # "event"}
       ELSE /\ pathname' = pathname
            /\ guard' = IF guard.mounted
                        THEN [guard EXCEPT !.session = m.session, !.loading = FALSE]
                        ELSE guard
            /\ inflight' = inflight \ {m}
    /\ UNCHANGED <<requested, authSession>>
    /\ UNCHANGED <<dbVars, pageVars>>

DeliverAuthStateChange == \E m \in inflight : m.kind = "event" /\ OnSession(m)

ResolveGetSession == \E m \in inflight : m.kind = "promise" /\ OnSession(m)

\* The visitor loads the application at `path`.  A guarded route mounts
\* AuthGuard, whose effect subscribes to the auth events and calls getSession;
\* the auth client may answer the subscription with an initial event.
Visit(path, initialEvent) ==
    /\ pathname' = path
    /\ requested' = path
    /\ IF Guarded(path)
       THEN /\ guard' = Mounted
            /\ inflight' =
                  {[kind |-> "promise", session |-> authSession, pathname |-> path]}
                  \cup (IF initialEvent
                        THEN {[kind |-> "event", session |-> authSession,
                               pathname |-> path]}
                        ELSE {})
       ELSE /\ guard' = Unmounted
            /\ inflight' = {}
    /\ UNCHANGED authSession
    /\ UNCHANGED <<dbVars, pageVars>>

\* The visitor signs in on the Auth page.
SignIn(u) ==
    /\ pathname = AuthPath
    /\ authSession = NULL
    /\ authSession' = u
    /\ UNCHANGED <<pathname, requested, guard, inflight>>
    /\ UNCHANGED <<dbVars, pageVars>>

\* Once signed in, the Auth page shows the application at / without a reload:
\* the AuthGuard of that route mounts and its effect subscribes and calls
\* getSession.  The getSession promises of guards that have unmounted are still
\* pending: "stale".
EnterFromAuth(initialEvent) ==
    /\ pathname = AuthPath
    /\ authSession # NULL
    /\ pathname' = <<>>
    /\ requested' = <<>>
    /\ guard' = Mounted
    /\ inflight' =
          {[m EXCEPT !.kind = "stale"] : m \in {x \in inflight : x.kind # "event"}}
          \cup {[kind |-> "promise", session |-> authSession, pathname |-> <<>>]}
          \cup (IF initialEvent
                THEN {[kind |-> "event", session |-> authSession, pathname |-> <<>>]}
                ELSE {})
    /\ UNCHANGED authSession
    /\ UNCHANGED <<dbVars, pageVars>>

\* The getSession continuation of a guard that has unmounted: its setSession
\* and setLoading change nothing, its navigate("/auth") still navigates, with
\* the location it captured.
ResolveStaleGetSession ==
    \E m \in inflight :
        /\ m.kind = "stale"
        /\ IF Redirects(m.session, m.pathname)
           THEN /\ pathname' = AuthPath
                /\ guard' = Unmounted
                /\ inflight' = {x \in inflight \ {m} : x.kind # "event"}
           ELSE /\ pathname' = pathname
                /\ guard' = guard
                /\ inflight' = inflight \ {m}
        /\ UNCHANGED <<requested, authSession>>
        /\ UNCHANGED <<dbVars, pageVars>>

\* Home's handleLogout: supabase.auth.signOut(); the subscribed guard is sent
\* the change.
HandleLogout ==
    /\ MatchRoute(pathname) = "Home"
    /\ Renders = "children"
    /\ authSession' = NULL
    /\ inflight' = inflight \cup
                      {[kind |-> "event", session |-> NULL, pathname |-> pathname]}
    /\ UNCHANGED <<pathname, requested, guard>>
    /\ UNCHANGED <<dbVars, pageVars>>

\* ----------------------------------------------------------- typed text
\* What a user types is text held as its runs of equal characters, so that a
\* title of 200 characters is one run; no run is empty and neighbours differ.
Run(ch, n) == <<[ch |-> ch, n |-> n]>>

\* String.prototype.length
RECURSIVE TextLen(_)
TextLen(t) == IF t = <<>> THEN 0 ELSE Head(t).n + TextLen(Tail(t))

RECURSIVE TrimStart(_)
TrimStart(t) == IF t # <<>> /\ Head(t).ch = " " THEN TrimStart(Tail(t)) ELSE t

RECURSIVE TrimEnd(_)
TrimEnd(t) ==
    IF t # <<>> /\ t[Len(t)].ch = " " THEN TrimEnd(SubSeq(t, 1, Len(t) - 1)) ELSE t

TrimNothing(t) == t

\* String.prototype.trim
Trim(t) == TrimEnd(TrimStart(t))

CharRank(ch) == CASE ch = " " -> 32 [] ch = "a" -> 97 [] ch = "b" -> 98

\* a sorts before b
RECURSIVE TextLess(_, _)
TextLess(a, b) ==
    IF b = <<>> THEN FALSE
    ELSE IF a = <<>> THEN TRUE
    ELSE IF Head(a).ch # Head(b).ch THEN CharRank(Head(a).ch) < CharRank(Head(b).ch)
    ELSE IF Head(a).n = Head(b).n THEN TextLess(Tail(a), Tail(b))
    ELSE IF Head(a).n < Head(b).n
         THEN TextLess(Tail(a), Run(Head(b).ch, Head(b).n - Head(a).n) \o Tail(b))
    ELSE TextLess(Run(Head(a).ch, Head(a).n - Head(b).n) \o Tail(a), Tail(b))

\* .order("name"): the rows as a list, by name.
OrderByName(rows) ==
    CHOOSE q \in [1..Cardinality(rows) -> rows] :
        \A i, j \in 1..Cardinality(rows) : i < j => TextLess(q[i].name, q[j].name)

\* -------------------------------------------------------------- notifications
ToastError(message) == [kind |-> "error", message |-> message]

ToastSuccess(message) == [kind |-> "success", message |-> message]

\* A step of a page: the handler that ran, the notifications it raised and the
\* request it issued ("none": none).
Step(handler, toasts, request) ==
    [handler |-> handler, toasts |-> toasts, request |-> request]

\* A request that does not reach the store: the client returns an error.
FetchError(op, uid, row) == Response(op, uid, "fetch_error", 0, NULL, row)

\* ----------------------------------------------------------------- CreatePost
MinTitle == 5
MaxTitle == 200
MinContent == 20
MaxContent == 5000

\* The useState initial values.
InitialForm ==
    [mounted |-> TRUE, schools |-> <<>>, showNewSchool |-> FALSE,
     newSchoolName |-> <<>>, newSchoolLocation |-> <<>>, selectedSchoolId |-> NULL,
     title |-> <<>>, content |-> <<>>, postType |-> "general", loading |-> FALSE,
     userId |-> NULL]

NoForm == [InitialForm EXCEPT !.mounted = FALSE]

\* postSchema.safeParse: the messages of the issues, in the order of the keys.
PostSchemaErrors(title, content, schoolId, postType) ==
    (IF TextLen(title) < MinTitle THEN <<"Title must be at least 5 characters">>
     ELSE IF TextLen(title) > MaxTitle THEN <<"Title too long">>
     ELSE <<>>)
    \o (IF TextLen(content) < MinContent
        THEN <<"Content must be at least 20 characters">>
        ELSE IF TextLen(content) > MaxContent THEN <<"Content too long">>
        ELSE <<>>)
    \o (IF schoolId = NULL THEN <<"Please select a school">> ELSE <<>>)
    \o (IF postType \notin {"pro", "con", "general"} THEN <<"Invalid enum value">>
        ELSE <<>>)

\* useEffect(() => { fetchSchools(); getCurrentUser(); }, []): the two requests
\* are answered from the store and the session as they are, or fail.
MountCreatePost(fetchFails, userFails) ==
    /\ form' = InitialForm
    /\ replies' =
          {[for |-> "fetchSchools",
            reply |-> IF fetchFails THEN FetchError("select_schools", authSession, NULL)
                      ELSE Response("select_schools", authSession, "ok",
                                    Cardinality(Visible(authSession, "schools")), NULL,
                                    OrderByName({[id |-> r.id, name |-> r.name] :
                                                    r \in Visible(authSession, "schools")}))],
           [for |-> "getCurrentUser",
            reply |-> IF userFails THEN NULL ELSE authSession]}
    /\ step' = Step("mount", <<>>, "select_schools")
    /\ UNCHANGED <<pathname, requested, authSession, guard, inflight, view>>
    /\ UNCHANGED dbVars

\* fetchSchools, after the await
FetchSchoolsDone ==
    \E m \in replies :
        /\ m.for = "fetchSchools"
        /\ form.mounted
        /\ replies' = replies \ {m}
        /\ IF m.reply.status # "ok"
           THEN /\ step' = Step("fetchSchools", <<ToastError("Failed to load schools")>>, "none")
                /\ form' = form
           ELSE /\ step' = Step("fetchSchools", <<>>, "none")
                /\ form' = [form EXCEPT !.schools = m.reply.row]
        /\ UNCHANGED <<pathname, requested, authSession, guard, inflight, view>>
        /\ UNCHANGED dbVars

\* getCurrentUser, after the await: setUserId(user?.id || null)
GetCurrentUserDone ==
    \E m \in replies :
        /\ m.for = "getCurrentUser"
        /\ form.mounted
        /\ replies' = replies \ {m}
        /\ form' = [form EXCEPT !.userId = m.reply]
        /\ step' = Step("getCurrentUser", <<>>, "none")
        /\ UNCHANGED <<pathname, requested, authSession, guard, inflight, view>>
        /\ UNCHANGED dbVars

\* The user edits a field of the form: one of the setters runs.
SetField(field, value) ==
    /\ form.mounted
    /\ CASE field = "selectedSchoolId" ->
                ~form.showNewSchool
                    /\ \E i \in 1..Len(form.schools) : form.schools[i].id = value
         [] field \in {"newSchoolName", "newSchoolLocation"} -> form.showNewSchool
         [] field = "showNewSchool" -> value \/ ~form.loading
         [] OTHER -> TRUE
    /\ form' = [form EXCEPT ![field] = value]
    /\ step' = Step("set", <<>>, "none")
    /\ UNCHANGED <<pathname, requested, authSession, guard, inflight, view, replies>>
    /\ UNCHANGED dbVars

\* handleAddSchool, up to the await.  The continuation keeps the `schools` of
\* the render the handler belongs to.
HandleAddSchool(fails) ==
    /\ form.mounted /\ form.showNewSchool /\ ~form.loading
    /\ IF Trim(form.newSchoolName) = <<>>
       THEN /\ step' = Step("handleAddSchool",
                            <<ToastError("Please enter a school name")>>, "none")
            /\ UNCHANGED <<form, replies, dbVars>>
       ELSE IF form.userId = NULL
       THEN /\ step' = Step("handleAddSchool", <<ToastError("You must be logged in")>>, "none")
            /\ UNCHANGED <<form, replies, dbVars>>
       ELSE LET name == Trim(form.newSchoolName)
                place == IF Trim(form.newSchoolLocation) = <<>> THEN NULL
                         ELSE Trim(form.newSchoolLocation)
            IN  /\ form' = [form EXCEPT !.loading = TRUE]
                /\ IF fails
                   THEN /\ UNCHANGED dbVars
                        /\ replies' = replies \cup
                              {[for |-> "handleAddSchool", schools |-> form.schools,
                                reply |-> FetchError("insert_school", authSession,
                                                     [name |-> name, location |-> place,
                                                      created_by |-> form.userId])]}
                   ELSE /\ InsertSchool(authSession, name, place, form.userId)
                        /\ replies' = replies \cup
                              {[for |-> "handleAddSchool", schools |-> form.schools,
                                reply |-> resp']}
                /\ step' = Step("handleAddSchool", <<>>, "insert_school")
    /\ UNCHANGED <<pathname, requested, authSession, guard, inflight, view>>

\* handleAddSchool, after the await
HandleAddSchoolDone ==
    \E m \in replies :
        /\ m.for = "handleAddSchool"
        /\ form.mounted
        /\ replies' = replies \ {m}
        /\ IF m.reply.status # "ok"
           THEN /\ form' = [form EXCEPT !.loading = FALSE]
                /\ step' = Step("handleAddSchoolDone",
                                <<ToastError(IF m.reply.status = "unique_violation"
                                             THEN "A school with this name already exists"
                                             ELSE "Failed to add school")>>, "none")
           ELSE /\ form' = [form EXCEPT !.loading = FALSE,
                                        !.schools = Append(m.schools, m.reply.row),
                                        !.selectedSchoolId = m.reply.row.id,
                                        !.showNewSchool = FALSE,
                                        !.newSchoolName = <<>>,
                                        !.newSchoolLocation = <<>>]
                /\ step' = Step("handleAddSchoolDone",
                                <<ToastSuccess("School added successfully!")>>, "none")
        /\ UNCHANGED <<pathname, requested, authSession, guard, inflight, view>>
        /\ UNCHANGED dbVars

\* handleSubmit, up to the await.  The title and content inputs are `required`:
\* the browser submits the form only when both have a value.
HandleSubmit(fails) ==
    /\ form.mounted /\ ~form.loading
    /\ form.title # <<>> /\ form.content # <<>>
    /\ LET errors == PostSchemaErrors(Trim(form.title), Trim(form.content),
                                      form.selectedSchoolId, form.postType)
       IN  IF form.userId = NULL
           THEN /\ step' = Step("handleSubmit",
                                <<ToastError("You must be logged in to create a post")>>,
                                "none")
                /\ UNCHANGED <<form, replies, dbVars>>
           ELSE IF errors # <<>>
           THEN /\ step' = Step("handleSubmit", <<ToastError(errors[1])>>, "none")
                /\ UNCHANGED <<form, replies, dbVars>>
           ELSE /\ form' = [form EXCEPT !.loading = TRUE]
                /\ IF fails
                   THEN /\ UNCHANGED dbVars
                        /\ replies' = replies \cup
                              {[for |-> "handleSubmit", schoolId |-> form.selectedSchoolId,
                                reply |-> FetchError("insert_post", authSession, NULL)]}
                   ELSE /\ InsertPost(authSession, form.userId, form.selectedSchoolId,
                                      Trim(form.title), Trim(form.content), form.postType)
                        /\ replies' = replies \cup
                              {[for |-> "handleSubmit", schoolId |-> form.selectedSchoolId,
                                reply |-> resp']}
                /\ step' = Step("handleSubmit", <<>>, "insert_post")
    /\ UNCHANGED <<pathname, requested, authSession, guard, inflight, view>>

\* handleSubmit, after the await; navigate(`/school/${selectedSchoolId}`) leaves
\* the page.
HandleSubmitDone ==
    \E m \in replies :
        /\ m.for = "handleSubmit"
        /\ form.mounted
        /\ replies' = replies \ {m}
        /\ IF m.reply.status # "ok"
           THEN /\ form' = [form EXCEPT !.loading = FALSE]
                /\ step' = Step("handleSubmitDone",
                                <<ToastError("Failed to create post")>>, "none")
                /\ pathname' = pathname
           ELSE /\ form' = NoForm
                /\ step' = Step("handleSubmitDone",
                                <<ToastSuccess("Post created successfully!")>>, "none")
                /\ pathname' = <<"school", ToString(m.schoolId)>>
        /\ UNCHANGED <<requested, authSession, guard, inflight, view>>
        /\ UNCHANGED dbVars

\* ----------------------------------------------------------------------- Init
\* The store after the migrations: every table empty.
InitDb ==
    /\ users = {}
    /\ profiles = {}
    /\ schools = {}
    /\ user_schools = {}
    /\ posts = {}
    /\ comments = {}
    /\ votes = {}
    /\ seq = [users |-> 1, schools |-> 1, user_schools |-> 1, posts |-> 1,
              comments |-> 1, votes |-> 1]
    /\ now = 0
    /\ resp = Response("none", NULL, "ok", 0, NULL, NULL)

\* The browser at /auth, signed out.
InitClient ==
    /\ pathname = AuthPath
    /\ requested = AuthPath
    /\ authSession = NULL
    /\ guard = Unmounted
    /\ inflight = {}

\* ---------------------------------------------------- Home, Profile, SchoolDetail
\* The state of the mounted page among Home, Profile and SchoolDetail: its
\* route parameter, its loading flag and what it has loaded (ids of the rows).
NoView ==
    [mounted |-> FALSE, page |-> "none", id |-> NULL, loading |-> TRUE, userId |-> NULL,
     isOwnProfile |-> FALSE, item |-> NULL, schools |-> {}, posts |-> {}]

\* useState(...) of a page at its first render: loading starts true.
InitialView(page, id) == [NoView EXCEPT !.mounted = TRUE, !.page = page, !.id = id]

\* supabase.auth.getUser(): { data: { user }, error }; user is null on an error.
GetUser(fails) ==
    IF fails THEN FetchError("get_user", authSession, NULL)
    ELSE Response("get_user", authSession, "ok", 0, authSession, NULL)

\* A select of the rows given: their ids, or an error.
SelectReply(op, fails, rows) ==
    IF fails THEN FetchError(op, authSession, {})
    ELSE Response(op, authSession, "ok", Cardinality(rows), NULL, {r.id : r \in rows})

\* .single(): an error unless exactly one row was selected.
Single(reply) ==
    IF reply.status = "ok" /\ reply.count # 1
    THEN Response(reply.op, reply.uid, "no_single_row", reply.count, NULL, {})
    ELSE reply

\* Promise.all resolved, and `if (res.error) throw res.error` for each result.
Thrown(results) == \E i \in DOMAIN results : results[i].status # "ok"

\* Home: useEffect(() => { fetchData(); }, []), up to the await. The limits of
\* 20 schools and 10 posts are above what the store holds.
MountHome(schoolsFail, postsFail) ==
    /\ view' = InitialView("Home", NULL)
    /\ form' = NoForm
    /\ replies' =
          {[for |-> "fetchData",
            reply |-> <<SelectReply("select_schools", schoolsFail,
                                    Visible(authSession, "schools")),
                        SelectReply("select_posts", postsFail,
                                    Visible(authSession, "posts"))>>]}
    /\ step' = Step("mountHome", <<>>, "select_schools")
    /\ UNCHANGED <<pathname, requested, authSession, guard, inflight>>
    /\ UNCHANGED dbVars

\* Home.fetchData, after the await
FetchDataDone ==
    \E m \in replies :
        /\ m.for = "fetchData"
        /\ view.mounted /\ view.page = "Home"
        /\ replies' = replies \ {m}
        /\ IF Thrown(m.reply)
           THEN /\ step' = Step("fetchData", <<ToastError("Failed to load data")>>, "none")
                /\ view' = [view EXCEPT !.loading = FALSE]
           ELSE /\ step' = Step("fetchData", <<>>, "none")
                /\ view' = [view EXCEPT !.schools = m.reply[1].row,
                                        !.posts = m.reply[2].row,
                                        !.loading = FALSE]
        /\ UNCHANGED <<pathname, requested, authSession, guard, inflight, form>>
        /\ UNCHANGED dbVars

\* SchoolDetail: useEffect(() => { if (id) { fetchSchoolData(); getCurrentUser(); } },
\* [id]), each up to its await; the route school/:id always gives an id.
MountSchoolDetail(id, schoolFails, postsFail, userFails) ==
    /\ view' = InitialView("SchoolDetail", id)
    /\ form' = NoForm
    /\ replies' =
          {[for |-> "fetchSchoolData",
            reply |-> <<Single(SelectReply("select_schools", schoolFails,
                                           {r \in Visible(authSession, "schools") :
                                               r.id = id})),
                        SelectReply("select_posts", postsFail,
                                    {r \in Visible(authSession, "posts") :
                                        r.school_id = id})>>],
           [for |-> "SchoolDetail.getCurrentUser", reply |-> <<GetUser(userFails)>>]}
    /\ step' = Step("mountSchoolDetail", <<>>, "select_schools")
    /\ UNCHANGED <<pathname, requested, authSession, guard, inflight>>
    /\ UNCHANGED dbVars

\* SchoolDetail.fetchSchoolData, after the await
FetchSchoolDataDone ==
    \E m \in replies :
        /\ m.for = "fetchSchoolData"
        /\ view.mounted /\ view.page = "SchoolDetail"
        /\ replies' = replies \ {m}
        /\ IF Thrown(m.reply)
           THEN /\ step' = Step("fetchSchoolData",
                                <<ToastError("Failed to load school data")>>, "none")
                /\ view' = [view EXCEPT !.loading = FALSE]
           ELSE /\ step' = Step("fetchSchoolData", <<>>, "none")
                /\ view' = [view EXCEPT !.item = view.id,
                                        !.posts = m.reply[2].row,
                                        !.loading = FALSE]
        /\ UNCHANGED <<pathname, requested, authSession, guard, inflight, form>>
        /\ UNCHANGED dbVars

\* SchoolDetail.getCurrentUser, after the await: setUserId(user?.id || null);
\* the error of getUser is not read.
SchoolGetCurrentUserDone ==
    \E m \in replies :
        /\ m.for = "SchoolDetail.getCurrentUser"
        /\ view.mounted /\ view.page = "SchoolDetail"
        /\ replies' = replies \ {m}
        /\ view' = [view EXCEPT !.userId = m.reply[1].id]
        /\ step' = Step("SchoolDetail.getCurrentUser", <<>>, "none")
        /\ UNCHANGED <<pathname, requested, authSession, guard, inflight, form>>
        /\ UNCHANGED dbVars

\* Profile: useEffect(() => { fetchProfileData(); }, [id]), up to the first await;
\* id is NULL on the route /profile.
MountProfile(id, userFails) ==
    /\ view' = InitialView("Profile", id)
    /\ form' = NoForm
    /\ replies' = {[for |-> "fetchProfileData.getUser", reply |-> <<GetUser(userFails)>>]}
    /\ step' = Step("mountProfile", <<>>, "get_user")
    /\ UNCHANGED <<pathname, requested, authSession, guard, inflight>>
    /\ UNCHANGED dbVars

\* Profile.fetchProfileData between its two awaits: without a profile id it
\* notifies, navigates to / and returns through finally; with one it issues the
\* three selects. The error of getUser is not read.
FetchProfileDataUser(profileFails, schoolsFail, postsFail) ==
    \E m \in replies :
        /\ m.for = "fetchProfileData.getUser"
        /\ view.mounted /\ view.page = "Profile"
        /\ LET user == m.reply[1].id
               profileId == IF view.id # NULL THEN view.id ELSE user
           IN  IF profileId = NULL
               THEN /\ step' = Step("fetchProfileData.getUser",
                                    <<ToastError("Profile not found")>>, "none")
                    /\ pathname' = <<>>
                    /\ replies' = replies \ {m}
                    /\ view' = [view EXCEPT !.loading = FALSE]
               ELSE /\ step' = Step("fetchProfileData.getUser", <<>>, "select_profiles")
                    /\ pathname' = pathname
                    /\ view' = [view EXCEPT !.isOwnProfile = (view.id = NULL \/ view.id = user)]
                    /\ replies' =
                          (replies \ {m}) \cup
                          {[for |-> "fetchProfileData",
                            reply |-> <<Single(SelectReply("select_profiles", profileFails,
                                                {r \in Visible(authSession, "profiles") :
                                                    r.id = profileId})),
                                        SelectReply("select_user_schools", schoolsFail,
                                                {r \in Visible(authSession, "user_schools") :
                                                    r.user_id = profileId}),
                                        SelectReply("select_posts", postsFail,
                                                {r \in Visible(authSession, "posts") :
                                                    r.user_id = profileId})>>]}
        /\ UNCHANGED <<requested, authSession, guard, inflight, form>>
        /\ UNCHANGED dbVars

\* Profile.fetchProfileData, after the second await
FetchProfileDataDone ==
    \E m \in replies :
        /\ m.for = "fetchProfileData"
        /\ view.mounted /\ view.page = "Profile"
        /\ replies' = replies \ {m}
        /\ IF Thrown(m.reply)
           THEN /\ step' = Step("fetchProfileData",
                                <<ToastError("Failed to load profile")>>, "none")
                /\ view' = [view EXCEPT !.loading = FALSE]
           ELSE /\ step' = Step("fetchProfileData", <<>>, "none")
                /\ view' = [view EXCEPT !.item = CHOOSE i \in m.reply[1].row : TRUE,
                                        !.schools = m.reply[2].row,
                                        !.posts = m.reply[3].row,
                                        !.loading = FALSE]
        /\ UNCHANGED <<pathname, requested, authSession, guard, inflight, form>>
        /\ UNCHANGED dbVars

\* No page is mounted.
InitPages ==
    /\ form = NoForm
    /\ view = NoView
    /\ replies = {}
    /\ step = Step("none", <<>>, "none")

Init == InitDb /\ InitClient /\ InitPages

\* ------------------------------------------------------------------- requests
\* A specification about one table issues that table's requests with every
\* value of the input sets (...Any) and fills the tables it only needs rows from
\* with well-formed rows (...Plain).  Every insert is capped: the table receives
\* no more than `cap` rows.
Capped(t, cap) == seq'[t] <= cap + 1

SignUpAny ==
    /\ \E e \in Emails, m \in Metas : SignUp(e, m) /\ Capped("users", MaxUsers)
    /\ UNCHANGED clientVars

\* The k-th identity signs up with the metadata username u, uu, uuu, ...
PlainUsername(k) == [i \in 1..k |-> "u"]

SignUpPlain ==
    /\ SignUp(Some(JaneAtExample), Some(PlainUsername(seq.users)))
    /\ Capped("users", MaxUsers)
    /\ UNCHANGED clientVars

DeleteUserAny ==
    /\ \E id \in users : DeleteUser(id)
    /\ UNCHANGED clientVars

InsertProfileAny ==
    /\ \E uid \in Callers, id \in Issued("users"), n \in Usernames : InsertProfile(uid, id, n)
    /\ UNCHANGED clientVars

UpdateProfileAny ==
    /\ \E uid \in Callers, id \in Issued("users"), nid \in Issued("users"), n \in Usernames :
           UpdateProfile(uid, id, nid, n)
    /\ UNCHANGED clientVars

DeleteProfileAny ==
    /\ \E uid \in Callers, id \in Issued("users") : DeleteProfile(uid, id)
    /\ UNCHANGED clientVars

AdminDeleteProfileAny ==
    /\ \E id \in Ids(profiles) : AdminDeleteProfile(id)
    /\ UNCHANGED clientVars

InsertSchoolAny ==
    /\ \E uid \in Callers, n \in SchoolNames, cb \in Callers :
           InsertSchool(uid, n, "NULL", cb) /\ Capped("schools", MaxSchools)
    /\ UNCHANGED clientVars

\* The k-th school is inserted under the k-th of these names.
PlainSchoolNames == <<"Lincoln High", "Kennedy", "Roosevelt", "Jefferson">>

InsertSchoolPlain(cap) ==
    /\ \E uid \in users :
           /\ seq.schools <= Len(PlainSchoolNames)
           /\ InsertSchool(uid, PlainSchoolNames[seq.schools], "NULL", uid)
           /\ Capped("schools", cap)
    /\ UNCHANGED clientVars

UpdateSchoolAny ==
    /\ \E uid \in Callers, id \in Issued("schools"), n \in SchoolNames :
           UpdateSchool(uid, id, n, "Springfield")
    /\ UNCHANGED clientVars

DeleteSchoolAny ==
    /\ \E uid \in Callers, id \in Issued("schools") : DeleteSchool(uid, id)
    /\ UNCHANGED clientVars

AdminDeleteSchoolAny ==
    /\ \E id \in Ids(schools) : AdminDeleteSchool(id)
    /\ UNCHANGED clientVars

InsertUserSchoolPlain(cap) ==
    /\ \E uid \in users, sid \in Ids(schools) :
           InsertUserSchool(uid, uid, sid, "current") /\ Capped("user_schools", cap)
    /\ UNCHANGED clientVars

InsertUserSchoolAny ==
    /\ \E uid \in Callers, user_id \in Issued("users"), sid \in Issued("schools"),
          status \in StatusInputs :
           InsertUserSchool(uid, user_id, sid, status) /\ Capped("user_schools", MaxLinks)
    /\ UNCHANGED clientVars

UpdateUserSchoolAny ==
    /\ \E uid \in Callers, id \in Issued("user_schools"), user_id \in Issued("users"),
          status \in StatusInputs :
           UpdateUserSchool(uid, id, user_id, status)
    /\ UNCHANGED clientVars

DeleteUserSchoolAny ==
    /\ \E uid \in Callers, id \in Issued("user_schools") : DeleteUserSchool(uid, id)
    /\ UNCHANGED clientVars

InsertPostAny(cap) ==
    /\ \E uid \in Callers, user_id \in Callers, sid \in Issued("schools") :
           InsertPost(uid, user_id, sid, "title", "content", "con") /\ Capped("posts", cap)
    /\ UNCHANGED clientVars

InsertPostPlain(cap) ==
    /\ \E uid \in users, sid \in Ids(schools) :
           InsertPost(uid, uid, sid, "title", "content", "pro") /\ Capped("posts", cap)
    /\ UNCHANGED clientVars

\* Posts of every post_type of PostTypeInputs, by their author or anonymously.
InsertPostTyped ==
    /\ \E uid \in Callers, user_id \in users, sid \in Ids(schools), t \in PostTypeInputs :
           /\ uid \in {NULL, user_id}
           /\ InsertPost(uid, user_id, sid, "title", "content", t)
           /\ Capped("posts", MaxPosts)
    /\ UNCHANGED clientVars

UpdatePostTyped ==
    /\ \E uid \in Callers, r \in posts, t \in PostTypeInputs :
           UpdatePost(uid, r.id, r.user_id, r.title, t, now)
    /\ UNCHANGED clientVars

UpdatePostAny ==
    /\ \E uid \in Callers, id \in Issued("posts"), user_id \in Issued("users") :
           UpdatePost(uid, id, user_id, "edited", "general", now)
    /\ UNCHANGED clientVars

DeletePostAny ==
    /\ \E uid \in Callers, id \in Issued("posts") : DeletePost(uid, id)
    /\ UNCHANGED clientVars

DeletePostPlain ==
    /\ \E p \in posts : DeletePost(p.user_id, p.id)
    /\ UNCHANGED clientVars

InsertCommentPlain(cap) ==
    /\ \E uid \in users, pid \in Ids(posts) :
           InsertComment(uid, pid, uid, "content") /\ Capped("comments", cap)
    /\ UNCHANGED clientVars

InsertVotePlain(cap) ==
    /\ \E uid \in users, pid \in Ids(posts) :
           InsertVote(uid, pid, uid, "upvote") /\ Capped("votes", cap)
    /\ UNCHANGED clientVars

InsertVoteAny ==
    /\ \E uid \in Callers, pid \in Issued("posts"), user_id \in Issued("users"),
          vote_type \in VoteTypeInputs :
           InsertVote(uid, pid, user_id, vote_type) /\ Capped("votes", MaxVotes)
    /\ UNCHANGED clientVars

UpdateVoteAny ==
    /\ \E uid \in Callers, id \in Issued("votes"), pid \in Issued("posts"),
          vote_type \in VoteTypeInputs :
           UpdateVote(uid, id, pid, vote_type)
    /\ UNCHANGED clientVars

DeleteVoteAny ==
    /\ \E uid \in Callers, id \in Issued("votes") : DeleteVote(uid, id)
    /\ UNCHANGED clientVars

\* Requests on the rows of the owned tables by every caller; the row a request
\* writes keeps its user_id.
InsertUserSchoolBy(cap) ==
    /\ \E uid \in Callers, user_id \in Issued("users"), sid \in Ids(schools) :
           InsertUserSchool(uid, user_id, sid, "current") /\ Capped("user_schools", cap)
    /\ UNCHANGED clientVars

UpdateUserSchoolBy ==
    /\ \E uid \in Callers, r \in user_schools :
           UpdateUserSchool(uid, r.id, r.user_id, "past")
    /\ UNCHANGED clientVars

InsertCommentBy(cap) ==
    /\ \E uid \in Callers, user_id \in Issued("users"), pid \in Ids(posts) :
           InsertComment(uid, pid, user_id, "content") /\ Capped("comments", cap)
    /\ UNCHANGED clientVars

UpdateCommentBy ==
    /\ \E uid \in Callers, r \in comments :
           UpdateComment(uid, r.id, r.user_id, "edited", now)
    /\ UNCHANGED clientVars

DeleteCommentAny ==
    /\ \E uid \in Callers, id \in Issued("comments") : DeleteComment(uid, id)
    /\ UNCHANGED clientVars

InsertVoteBy(cap) ==
    /\ \E uid \in Callers, user_id \in Issued("users"), pid \in Ids(posts) :
           InsertVote(uid, pid, user_id, "upvote") /\ Capped("votes", cap)
    /\ UNCHANGED clientVars

UpdateVoteBy ==
    /\ \E uid \in Callers, r \in votes : UpdateVote(uid, r.id, r.post_id, "downvote")
    /\ UNCHANGED clientVars

\* Updates that give a comment or a vote to any identity.
ReassignCommentAny ==
    /\ \E uid \in Callers, id \in Issued("comments"), user_id \in Issued("users") :
           UpdateComment(uid, id, user_id, "content", now)
    /\ UNCHANGED clientVars

ReassignVoteAny ==
    /\ \E uid \in Callers, id \in Issued("votes"), user_id \in Issued("users") :
           ReassignVote(uid, id, user_id)
    /\ UNCHANGED clientVars

\* Rows of their own by every caller, naming every parent id that was issued.
InsertUserSchoolRef(cap) ==
    /\ \E uid \in Callers, sid \in Issued("schools") :
           InsertUserSchool(uid, uid, sid, "current") /\ Capped("user_schools", cap)
    /\ UNCHANGED clientVars

InsertPostRef(cap) ==
    /\ \E uid \in Callers, sid \in Issued("schools") :
           InsertPost(uid, uid, sid, "title", "content", "pro") /\ Capped("posts", cap)
    /\ UNCHANGED clientVars

InsertVoteRef(cap) ==
    /\ \E uid \in Callers, pid \in Issued("posts") :
           InsertVote(uid, pid, uid, "upvote") /\ Capped("votes", cap)
    /\ UNCHANGED clientVars

InsertCommentRef(cap) ==
    /\ \E uid \in Callers, pid \in Issued("posts") :
           InsertComment(uid, pid, uid, "content") /\ Capped("comments", cap)
    /\ UNCHANGED clientVars

SelectAny ==
    /\ \E uid \in Callers, t \in TableNames : Select(uid, t)
    /\ UNCHANGED clientVars

\* Time passes, up to MaxTime.
TickCapped ==
    /\ now < MaxTime
    /\ Tick
    /\ UNCHANGED clientVars

Times == 0..MaxTime

\* An owner edits their post and supplies an updated_at of their own.
UpdatePostStamped ==
    /\ \E r \in posts, t \in Times :
           UpdatePost(r.user_id, r.id, r.user_id, "edited", r.post_type, t)
    /\ UNCHANGED clientVars

UpdateCommentStamped ==
    /\ \E r \in comments, t \in Times :
           UpdateComment(r.user_id, r.id, r.user_id, "edited", t)
    /\ UNCHANGED clientVars

\* The k-th school gets the name a, aa, aaa, ...
InsertSchoolNamed(cap) ==
    /\ \E uid \in users :
           InsertSchool(uid, Run("a", seq.schools), NULL, uid) /\ Capped("schools", cap)
    /\ UNCHANGED clientVars

MountCreatePostAny ==
    \E fetchFails \in BOOLEAN, userFails \in BOOLEAN :
        MountCreatePost(fetchFails, userFails)

\* Titles of 4, 5 and 200 characters, and contents of 19 and 20, some of them
\* between blanks.
TitleInputs ==
    {Run(" ", 1) \o Run("a", MinTitle - 1) \o Run(" ", 1),
     Run(" ", 1) \o Run("a", MinTitle), Run("a", MaxTitle)}

ContentInputs == {Run("a", MinContent - 1), Run(" ", 3) \o Run("a", MinContent)}

PostFieldInputs ==
    ({"title"} \X TitleInputs) \cup ({"content"} \X ContentInputs)
        \cup ({"selectedSchoolId"} \X Issued("schools")) \cup {<<"postType", "pro">>}

SetPostField == \E fv \in PostFieldInputs : SetField(fv[1], fv[2])

MountHomeAny == \E schoolsFail, postsFail \in BOOLEAN : MountHome(schoolsFail, postsFail)

\* A school page of a school that exists or of an id that was never issued.
MountSchoolDetailAny ==
    \E id \in 1..seq.schools, schoolFails, postsFail, userFails \in BOOLEAN :
        MountSchoolDetail(id, schoolFails, postsFail, userFails)

MountProfileAny ==
    \E id \in {NULL} \cup Issued("users"), userFails \in BOOLEAN : MountProfile(id, userFails)

FetchProfileDataUserAny ==
    \E profileFails, schoolsFail, postsFail \in BOOLEAN :
        FetchProfileDataUser(profileFails, schoolsFail, postsFail)

\* The new-school panel opened and closed, and names and locations typed:
\* blank, "a" between blanks, and "b".
SchoolFieldInputs ==
    ({"showNewSchool"} \X BOOLEAN)
        \cup ({"newSchoolName"} \X {Run(" ", 2), Run(" ", 1) \o Run("a", 1) \o Run(" ", 1),
                                    Run("b", 1)})
        \cup ({"newSchoolLocation"} \X {Run(" ", 1), Run("b", 2)})

SetSchoolField == \E fv \in SchoolFieldInputs : SetField(fv[1], fv[2])

HandleAddSchoolAny ==
    \E fails \in BOOLEAN : HandleAddSchool(fails) /\ Capped("schools", MaxSchools)

HandleSubmitAny == \E fails \in BOOLEAN : HandleSubmit(fails) /\ Capped("posts", Few)

VisitAny == \E path \in Paths, initialEvent \in BOOLEAN : Visit(path, initialEvent)

EnterFromAuthAny == \E initialEvent \in BOOLEAN : EnterFromAuth(initialEvent)

SignInAny == \E u \in SessionUsers : SignIn(u)

\* -------------------------------------------------------------- specifications
\* Identities and profiles.
NextProfiles ==
    \/ SignUpAny
    \/ DeleteUserAny
    \/ InsertProfileAny
    \/ UpdateProfileAny
    \/ DeleteProfileAny
    \/ AdminDeleteProfileAny

SpecProfiles == Init /\ [][NextProfiles]_vars

\* Identities and schools.
NextSchools ==
    \/ SignUpPlain
    \/ DeleteUserAny
    \/ InsertSchoolAny
    \/ UpdateSchoolAny
    \/ DeleteSchoolAny
    \/ AdminDeleteSchoolAny

SpecSchools == Init /\ [][NextSchools]_vars

\* Identities, a school and its posts.
NextPosts ==
    \/ SignUpPlain
    \/ InsertSchoolPlain(Few)
    \/ InsertPostAny(Few)
    \/ UpdatePostAny
    \/ DeletePostAny

SpecPosts == Init /\ [][NextPosts]_vars

\* Identities, a school and the links to it.
NextLinks ==
    \/ SignUpPlain
    \/ InsertSchoolPlain(Few)
    \/ InsertUserSchoolAny
    \/ UpdateUserSchoolAny
    \/ DeleteUserSchoolAny

SpecLinks == Init /\ [][NextLinks]_vars

\* Identities, a school, a post and the votes on it.
NextVotes ==
    \/ SignUpPlain
    \/ InsertSchoolPlain(Few)
    \/ InsertPostPlain(Few)
    \/ InsertVoteAny
    \/ UpdateVoteAny
    \/ DeleteVoteAny

SpecVotes == Init /\ [][NextVotes]_vars

\* The owned tables under requests by owners, other users and anonymous callers.
NextOwners ==
    \/ SignUpPlain
    \/ InsertSchoolPlain(Few)
    \/ InsertUserSchoolBy(Few)
    \/ UpdateUserSchoolBy
    \/ DeleteUserSchoolAny
    \/ InsertPostAny(Few)
    \/ UpdatePostAny
    \/ DeletePostAny
    \/ InsertCommentBy(Few)
    \/ UpdateCommentBy
    \/ DeleteCommentAny
    \/ InsertVoteBy(Few)
    \/ UpdateVoteBy
    \/ DeleteVoteAny
    \/ SelectAny

SpecOwners == Init /\ [][NextOwners]_vars

\* The create-post form, filled in and submitted.
NextSubmit ==
    \/ SignUpPlain
    \/ SignInAny
    \/ InsertSchoolNamed(Few)
    \/ MountCreatePostAny
    \/ FetchSchoolsDone
    \/ GetCurrentUserDone
    \/ SetPostField
    \/ HandleSubmitAny
    \/ HandleSubmitDone

SpecSubmit == Init /\ [][NextSubmit]_vars

\* The new-school panel of the create-post form.
NextAddSchool ==
    \/ SignUpPlain
    \/ SignInAny
    \/ InsertSchoolNamed(Few)
    \/ MountCreatePostAny
    \/ FetchSchoolsDone
    \/ GetCurrentUserDone
    \/ SetSchoolField
    \/ HandleAddSchoolAny
    \/ HandleAddSchoolDone

SpecAddSchool == Init /\ [][NextAddSchool]_vars

\* The initial loads of Home, Profile and SchoolDetail.
NextLoads ==
    \/ SignUpPlain
    \/ SignInAny
    \/ InsertSchoolNamed(Few)
    \/ InsertPostPlain(Few)
    \/ MountHomeAny
    \/ FetchDataDone
    \/ MountSchoolDetailAny
    \/ FetchSchoolDataDone
    \/ SchoolGetCurrentUserDone
    \/ MountProfileAny
    \/ FetchProfileDataUserAny
    \/ FetchProfileDataDone

SpecLoads == Init /\ [][NextLoads]_vars

\* Inserts, updates that set user_id, and deletes on the four owned tables.
NextReassign ==
    \/ SignUpPlain
    \/ InsertSchoolPlain(Few)
    \/ InsertUserSchoolBy(Few)
    \/ UpdateUserSchoolAny
    \/ DeleteUserSchoolAny
    \/ InsertPostAny(Few)
    \/ UpdatePostAny
    \/ DeletePostAny
    \/ InsertCommentBy(Few)
    \/ ReassignCommentAny
    \/ DeleteCommentAny
    \/ InsertVoteBy(Few)
    \/ ReassignVoteAny
    \/ DeleteVoteAny

SpecReassign == Init /\ [][NextReassign]_vars

\* Inserts that name parents that exist or were deleted, deletes and cascades.
NextIntegrity ==
    \/ SignUpPlain
    \/ DeleteUserAny
    \/ InsertSchoolPlain(Few)
    \/ AdminDeleteSchoolAny
    \/ InsertUserSchoolRef(Few)
    \/ InsertPostRef(MaxPosts)
    \/ DeletePostPlain
    \/ InsertCommentRef(Few)
    \/ InsertVoteRef(MaxVotes)

SpecIntegrity == Init /\ [][NextIntegrity]_vars

\* Posts of valid and invalid types.
NextPostTypes ==
    \/ SignUpPlain
    \/ InsertSchoolPlain(Few)
    \/ InsertPostTyped
    \/ UpdatePostTyped

SpecPostTypes == Init /\ [][NextPostTypes]_vars

\* A post and a comment, edited as the clock advances.
NextStamps ==
    \/ SignUpPlain
    \/ InsertSchoolPlain(Few)
    \/ InsertPostPlain(Few)
    \/ InsertCommentPlain(Few)
    \/ TickCapped
    \/ UpdatePostStamped
    \/ UpdateCommentStamped

SpecStamps == Init /\ [][NextStamps]_vars

\* Every table, well-formed rows: the inserts, and the deletes with their
\* cascades.
NextCascade ==
    \/ SignUpPlain
    \/ DeleteUserAny
    \/ InsertSchoolPlain(MaxSchools)
    \/ AdminDeleteSchoolAny
    \/ InsertUserSchoolPlain(Few)
    \/ InsertPostPlain(MaxPosts)
    \/ DeletePostPlain
    \/ InsertCommentPlain(Few)
    \/ InsertVotePlain(Few)

SpecCascade == Init /\ [][NextCascade]_vars

\* The browser: page loads, sign-in, sign-out and the guard's callbacks.
NextGuard ==
    \/ VisitAny
    \/ SignInAny
    \/ HandleLogout
    \/ DeliverAuthStateChange
    \/ ResolveGetSession

SpecGuard == Init /\ [][NextGuard]_vars

\* An event or a promise result that is in flight is delivered.
SpecGuardFair ==
    /\ SpecGuard
    /\ WF_vars(DeliverAuthStateChange)
    /\ WF_vars(ResolveGetSession)

\* The guard with sign-in followed by entering the application from /auth.
NextRace ==
    \/ VisitAny
    \/ SignInAny
    \/ EnterFromAuthAny
    \/ HandleLogout
    \/ DeliverAuthStateChange
    \/ ResolveGetSession
    \/ ResolveStaleGetSession

SpecRace == Init /\ [][NextRace]_vars

\* ===================================================================== claims

\* ------------------------------------------------------------------------- C1
SchoolNamesUnique == \A s, t \in schools : s # t => s.name # t.name

\* C1: no two rows of schools have the same name, whoever inserted them; an
\* insert whose name is the name of an existing school is rejected and adds no
\* row.  The error is the integrity error (unique_violation) whenever the insert
\* passes the insert policy, as user B's insert of user A's "Lincoln High" does;
\* an insert that violates the policy is rejected by the policy first.
C1_SchoolNameUnique ==
    [][/\ SchoolNamesUnique'
       /\ (resp'.op = "insert_school" /\ \E s \in schools : s.name = resp'.row.name) =>
             /\ resp'.status \in {"unique_violation", PolicyError}
             /\ (resp'.uid # NULL /\ resp'.row.created_by = resp'.uid)
                    => resp'.status = "unique_violation"
             /\ resp'.count = 0
             /\ schools' = schools]_vars

\* User B's insert of "Lincoln High", which user A had inserted, was rejected
\* as a duplicate.
C1_Witness ==
    /\ resp.op = "insert_school"
    /\ resp.status = "unique_violation"
    /\ resp.row.name = "Lincoln High"
    /\ \E s \in schools :
          s.name = "Lincoln High" /\ s.created_by # NULL /\ s.created_by # resp.uid

\* ------------------------------------------------------------------------- C2
\* Deletes by the auth service or by a role that bypasses row level security.
PrivilegedOps == {"delete_user", "admin_delete_profile", "admin_delete_school"}

\* C2: an update or a delete of a post P by a caller other than P.user_id writes
\* no row: the policy hides P from it, so P and every other row of every table
\* stay as they were.  A post changes or goes through the policy-gated interface
\* only by an update or delete of that post by the caller with auth.uid() =
\* P.user_id.
C2_PostsOwnerOnly ==
    [][\A P \in posts :
          /\ (resp'.op \in {"update_post", "delete_post"} /\ resp'.id = P.id
                  /\ resp'.uid # P.user_id) =>
                (resp'.count = 0 /\ tables' = tables)
          /\ (P \notin posts' /\ resp'.op \notin PrivilegedOps) =>
                /\ resp'.op \in {"update_post", "delete_post"}
                /\ resp'.id = P.id
                /\ resp'.uid = P.user_id]_vars

\* User B, signed in, has tried to update user A's post of type "con"; no row
\* was written.
C2_Witness ==
    /\ resp.op = "update_post"
    /\ resp.uid \in users
    /\ resp.count = 0
    /\ \E P \in posts :
          /\ P.id = resp.id
          /\ P.user_id \in users \ {resp.uid}
          /\ P.post_type = "con"
          /\ P.title = "title"

\* ------------------------------------------------------------------------- C3
\* The visitor, who has no session, has requested `path` and is shown it.
RequestedWithoutSession(path) ==
    requested = path /\ pathname = path /\ authSession = NULL

\* The visitor has been sent to /auth, or has asked for another path instead.
RedirectedFrom(path) == pathname = AuthPath \/ requested # path

\* C3 (as claimed): on every path other than /auth, the paths of the catch-all
\* route included, a visitor with no session who requested it is eventually at
\* /auth, unless they request another path first.
C3_EveryRouteRedirects ==
    \A path \in Paths \ {AuthPath} :
        RequestedWithoutSession(path) ~> RedirectedFrom(path)

\* C3: on every path of a guarded route (/, /profile, /profile/:id,
\* /create-post, /school/:id) a visitor with no session who requested it is
\* eventually at /auth, unless they request another path first; on a path of
\* the catch-all route no guard is mounted, nothing is in flight, and only a
\* new request changes the location.
C3_GuardedRoutesRedirect ==
    /\ \A path \in {q \in Paths : Guarded(q)} :
          RequestedWithoutSession(path) ~> RedirectedFrom(path)
    /\ [](MatchRoute(pathname) = "NotFound" => (~guard.mounted /\ inflight = {}))
    /\ [][MatchRoute(pathname) = "NotFound" =>
             (pathname' = pathname \/ requested' = pathname')]_vars

\* The visitor with no session requested /profile and has been sent to /auth.
C3_Witness ==
    /\ requested = <<"profile">>
    /\ pathname = AuthPath
    /\ authSession = NULL
    /\ ~guard.mounted

\* ------------------------------------------------------------------------- C4
\* C4 (as claimed): a failure of the profile insert of handle_new_user, here the
\* derived username being the username of another profile, does not fail the
\* creation of the identity: after such a signup request the identity it was
\* to create exists.
C4_IdentityExistsAfterSignup ==
    (resp.op = "signup" /\ resp.status = "unique_violation") => resp.id \in users

\* ------------------------------------------------------------------------- C5
\* The text before the first '@' of an email that has one.
IsLocalPart(u, e) ==
    /\ Len(u) < Len(e)
    /\ e[Len(u) + 1] = "@"
    /\ \A i \in 1..Len(u) : u[i] = e[i] /\ u[i] # "@"

\* C5: a signup that creates an identity adds exactly one profile; its id is the
\* identity's id and its username is the 'username' of the metadata when there
\* is one, and otherwise the part of the email before the first '@'
\* (jane@example.com and no metadata give jane).
C5_ProfileSynthesized ==
    [][(resp'.op = "signup" /\ resp'.status = "ok") =>
          /\ users' = users \cup {resp'.id}
          /\ resp'.id \notin users
          /\ \E p \in profiles' :
                /\ profiles' = profiles \cup {p}
                /\ p \notin profiles
                /\ p.id = resp'.id
                /\ p.username # None
                /\ IF resp'.row.meta # None
                   THEN p.username = resp'.row.meta
                   ELSE /\ resp'.row.email # None
                        /\ IsLocalPart(p.username[1], resp'.row.email[1])
                /\ (resp'.row.meta = None /\ resp'.row.email = Some(JaneAtExample))
                       => p.username = Some(Jane)]_vars

\* A signup with jane@example.com and no metadata has created the profile jane.
C5_Witness ==
    /\ resp.op = "signup"
    /\ resp.status = "ok"
    /\ resp.row = [email |-> Some(JaneAtExample), meta |-> None]
    /\ [id |-> resp.id, username |-> Some(Jane)] \in profiles

\* ------------------------------------------------------------------------- C6
ProfilesWellFormed ==
    /\ \A p \in profiles : p.id \in users
    /\ \A p, q \in profiles : p # q => (p.id # q.id /\ p.username # q.username)

\* The profile request answered by r collides with a row of `rows`: another
\* profile already has the username it carries.
ProfileRequestCollides(r, rows) ==
    \/ /\ r.op = "insert_profile"
       /\ \E q \in rows : q.username = r.row.username
    \/ /\ r.op = "update_profile"
       /\ \E q \in rows : q.id # r.id /\ q.username = r.row.username

\* C6: in every reachable state every profile's id is the id of an existing
\* identity, no two profiles have the same id and no two the same username; a
\* profile insert or update that carries the username of another profile writes
\* no row and leaves the profiles unchanged.
C6_ProfilesUnique ==
    [][/\ ProfilesWellFormed'
       /\ ProfileRequestCollides(resp', profiles) =>
             (resp'.count = 0 /\ profiles' = profiles)]_vars

\* The owner's update to the username of the other profile was rejected as a
\* duplicate, and their insert of a second profile as well.
C6_Witness ==
    /\ resp.op = "update_profile"
    /\ resp.status = "unique_violation"
    /\ resp.uid = resp.id
    /\ Cardinality(profiles) = 2
    /\ \E q \in profiles : q.id # resp.id /\ q.username = resp.row.username

\* ------------------------------------------------------------------------- C7
LinksWellFormed ==
    /\ \A l \in user_schools : l.status \in {"current", "past"}
    /\ \A l, m \in user_schools :
          (l.user_id = m.user_id /\ l.school_id = m.school_id /\ l.status = m.status)
              => l = m
    /\ \A u \in Issued("users"), x \in Issued("schools"), st \in {"current", "past"} :
          Cardinality({l \in user_schools :
                          l.user_id = u /\ l.school_id = x /\ l.status = st}) <= 1

\* The user_schools request answered by r would make a second row with the
\* (user_id, school_id, status) of a row of `rows`.
LinkRequestCollides(r, rows) ==
    \/ /\ r.op = "insert_user_school"
       /\ \E l \in rows : /\ l.user_id = r.row.user_id
                          /\ l.school_id = r.row.school_id
                          /\ l.status = r.row.status
    \/ /\ r.op = "update_user_school"
       /\ \E t, l \in rows : /\ t.id = r.id
                             /\ l.id # t.id
                             /\ l.user_id = r.row.user_id
                             /\ l.school_id = t.school_id
                             /\ l.status = r.row.status

\* C7: in every reachable state each user_schools status is 'current' or 'past'
\* and each (user, school) pair has at most one row of each status; an insert,
\* or an update of status, that would make a second row with the same
\* (user_id, school_id, status) writes no row and leaves user_schools unchanged.
C7_LinksUnique ==
    [][/\ LinksWellFormed'
       /\ LinkRequestCollides(resp', user_schools) =>
             (resp'.count = 0 /\ user_schools' = user_schools)]_vars

\* A user holds a 'current' and a 'past' link to one school; their update of
\* one link's status to the other's was rejected as a duplicate.
C7_Witness ==
    /\ resp.op = "update_user_school"
    /\ resp.status = "unique_violation"
    /\ \E l, m \in user_schools :
          /\ l.id = resp.id
          /\ l.user_id = resp.uid
          /\ m.user_id = l.user_id /\ m.school_id = l.school_id
          /\ l.status = "current" /\ m.status = "past"
          /\ resp.row.status = "past"

\* ------------------------------------------------------------------------- C8
VotesWellFormed ==
    /\ \A v \in votes : v.vote_type \in {"upvote", "downvote"}
    /\ \A v, w \in votes : (v.post_id = w.post_id /\ v.user_id = w.user_id) => v = w

\* C8: in every reachable state there is at most one votes row per (post, user)
\* and its vote_type is 'upvote' or 'downvote'.  A vote insert for a (post, user)
\* that has a row writes no row (a unique_violation when it passes the policy
\* and the vote_type check).  The owner's update of that row's vote_type to
\* 'upvote' or 'downvote' is accepted: it rewrites that row alone, so the pair
\* keeps exactly one row.
C8_OneVotePerUserAndPost ==
    [][/\ VotesWellFormed'
       /\ (/\ resp'.op = "insert_vote"
           /\ \E v \in votes : v.post_id = resp'.row.post_id
                               /\ v.user_id = resp'.row.user_id) =>
             /\ resp'.count = 0
             /\ votes' = votes
             /\ (resp'.uid = resp'.row.user_id
                     /\ resp'.row.vote_type \in {"upvote", "downvote"})
                    => resp'.status = "unique_violation"
       /\ \A v \in votes :
             (/\ resp'.op = "update_vote"
              /\ resp'.id = v.id
              /\ resp'.uid = v.user_id
              /\ resp'.row.post_id = v.post_id
              /\ resp'.row.vote_type \in {"upvote", "downvote"}) =>
                /\ resp'.status = "ok"
                /\ resp'.count = 1
                /\ votes' = (votes \ {v}) \cup
                                {[v EXCEPT !.vote_type = resp'.row.vote_type]}
                /\ Cardinality({w \in votes' : w.post_id = v.post_id
                                               /\ w.user_id = v.user_id}) = 1]_vars

\* A user who has a vote on a post tried to insert a second one; it was
\* rejected as a duplicate.
C8_Witness ==
    /\ resp.op = "insert_vote"
    /\ resp.status = "unique_violation"
    /\ resp.uid = resp.row.user_id
    /\ \E v \in votes : v.post_id = resp.row.post_id /\ v.user_id = resp.uid

\* ------------------------------------------------------------------------- C9
\* C9: when a school goes, every post of that school and every user_schools
\* link to it go with it; when a post goes, directly or with its school, every
\* comment and every vote on it go with it; the delete of a school or of a post
\* leaves the rows of the other schools and of the other posts, and the
\* identities and profiles, as they were.
C9_DeleteCascades ==
    [][/\ \A sid \in Ids(schools) \ Ids(schools') :
             /\ \A p \in posts' : p.school_id # sid
             /\ \A l \in user_schools' : l.school_id # sid
       /\ \A pid \in Ids(posts) \ Ids(posts') :
             /\ \A c \in comments' : c.post_id # pid
             /\ \A v \in votes' : v.post_id # pid
       /\ resp'.op = "admin_delete_school" =>
             LET gone == {p.id : p \in {q \in posts : q.school_id = resp'.id}}
             IN  /\ schools' = {x \in schools : x.id # resp'.id}
                 /\ posts' = {p \in posts : p.school_id # resp'.id}
                 /\ user_schools' = {l \in user_schools : l.school_id # resp'.id}
                 /\ comments' = {c \in comments : c.post_id \notin gone}
                 /\ votes' = {v \in votes : v.post_id \notin gone}
                 /\ UNCHANGED <<users, profiles>>
       /\ (resp'.op = "delete_post" /\ resp'.count = 1) =>
             /\ posts' = {p \in posts : p.id # resp'.id}
             /\ comments' = {c \in comments : c.post_id # resp'.id}
             /\ votes' = {v \in votes : v.post_id # resp'.id}
             /\ UNCHANGED <<users, profiles, schools, user_schools>>]_vars

\* A school was deleted and a post of it, a comment and a vote on that post and
\* a link to the school went with it, while a post of another school stays.
C9_Witness ==
    /\ resp.op = "admin_delete_school"
    /\ resp.row.posts = 1
    /\ resp.row.comments = 1
    /\ resp.row.votes = 1
    /\ resp.row.user_schools = 1
    /\ posts # {}

\* ------------------------------------------------------------------------ C10
\* What the deletion of the identity u leaves of the rows with a user_id: none
\* of u's, and no comment or vote on a post of u.
OwnedRowsGone(u) ==
    LET mine == {p.id : p \in {q \in posts : q.user_id = u}}
    IN  /\ u \notin users'
        /\ \A p \in profiles' : p.id # u
        /\ \A r \in user_schools' \cup posts' \cup comments' \cup votes' : r.user_id # u
        /\ \A r \in comments' \cup votes' : r.post_id \notin mine

\* C10 (as claimed): after the deletion of an identity, with its profile, no row
\* owned by it remains: no user_schools, posts, comments or votes row with that
\* user_id, no comment or vote on its posts, and none of the schools it created.
C10_NoOwnedRowRemains ==
    [][resp'.op = "delete_user" =>
          /\ OwnedRowsGone(resp'.id)
          /\ \A x \in schools : x.created_by = resp'.id => x.id \notin Ids(schools')]_vars

\* C10 (amended): after the deletion of an identity, with its profile, no
\* user_schools, posts, comments or votes row has that user_id and no comment or
\* vote remains on its posts; the schools it created are not deleted: every
\* school stays, those it created with created_by set to NULL.
C10_OwnedRowsCascadeSchoolsStay ==
    [][resp'.op = "delete_user" =>
          /\ OwnedRowsGone(resp'.id)
          /\ schools' = {IF x.created_by = resp'.id THEN [x EXCEPT !.created_by = NULL]
                         ELSE x : x \in schools}
          /\ \A x \in schools' : x.created_by # resp'.id]_vars

\* The first identity to go was deleted with a link, a post, a comment and a
\* vote of its own; a school it had created is still there, created_by NULL.
C10_Witness ==
    /\ resp.op = "delete_user"
    /\ Cardinality(users) = seq.users - 2
    /\ resp.row.profiles = 1
    /\ resp.row.user_schools = 1
    /\ resp.row.posts >= 1
    /\ resp.row.comments = 1
    /\ resp.row.votes = 1
    /\ \E x \in schools : x.created_by = NULL

\* ------------------------------------------------------------------------ C11
\* C11: an update that succeeds on a posts row or a comments row leaves the
\* row's updated_at equal to now(), whatever updated_at the request supplied,
\* and leaves its created_at as it was; an insert of a post or a comment that
\* supplies neither column sets both to now().  (A step that advances the
\* clock is no request.)
C11_UpdatedAtIsTimeOfUpdate ==
    [][now' = now =>
         /\ (resp'.op = "update_post" /\ resp'.count = 1) =>
               \E old \in posts, new \in posts' :
                   /\ old.id = resp'.id /\ new.id = resp'.id
                   /\ new.updated_at = now
                   /\ new.created_at = old.created_at
         /\ (resp'.op = "update_comment" /\ resp'.count = 1) =>
               \E old \in comments, new \in comments' :
                   /\ old.id = resp'.id /\ new.id = resp'.id
                   /\ new.updated_at = now
                   /\ new.created_at = old.created_at
         /\ (resp'.op = "insert_post" /\ resp'.count = 1) =>
               \E new \in posts' \ posts :
                   new.id = resp'.id /\ new.created_at = now /\ new.updated_at = now
         /\ (resp'.op = "insert_comment" /\ resp'.count = 1) =>
               \E new \in comments' \ comments :
                   new.id = resp'.id /\ new.created_at = now /\ new.updated_at = now]_vars

\* A comment made at an earlier time was updated by a request that supplied an
\* updated_at other than the time of the update; the row carries the time of
\* the update.  The post was edited as well.
C11_Witness ==
    /\ resp.op = "update_comment"
    /\ resp.count = 1
    /\ resp.row.updated_at # now
    /\ \E c \in comments :
          c.id = resp.id /\ c.updated_at = now /\ c.created_at < now
    /\ \E r \in posts : r.created_at < r.updated_at

\* ------------------------------------------------------------------------ C12
\* C12: every post's post_type is pro, con or general.  An insert or an update
\* of a post that carries another post_type writes no row and leaves posts as
\* it was: the insert fails (with the check violation when it passes the
\* policy), and the author's update of their post fails with the check
\* violation.
C12_PostTypeChecked ==
    [][/\ \A r \in posts' : r.post_type \in {"pro", "con", "general"}
       /\ (/\ resp'.op \in {"insert_post", "update_post"}
           /\ resp'.row.post_type \notin {"pro", "con", "general"}) =>
             /\ resp'.count = 0
             /\ posts' = posts
             /\ resp'.op = "insert_post" =>
                   /\ resp'.status \in {PolicyError, "check_violation"}
                   /\ resp'.uid = resp'.row.user_id => resp'.status = "check_violation"
             /\ \A r \in posts :
                   (resp'.op = "update_post" /\ r.id = resp'.id
                        /\ r.user_id = resp'.uid) =>
                       resp'.status = "check_violation"]_vars

\* The author of a post tried to make it a "rant"; the update failed with the
\* check violation and the post has its type.
C12_Witness ==
    /\ resp.op = "update_post"
    /\ resp.status = "check_violation"
    /\ resp.row.post_type = "rant"
    /\ \E r \in posts :
          r.id = resp.id /\ r.user_id = resp.uid /\ r.post_type \in PostTypeValues

\* ------------------------------------------------------------------------ C13
\* C13: a school insert writes a row only for an authenticated caller whose id
\* is the row's created_by; with created_by null or another user's id, or with
\* no session, it fails on the policy and writes nothing.  An update or a
\* delete of a school by any caller, its creator included, writes nothing.  A
\* school row is removed only by a privileged delete, and as long as it exists
\* its name and location are the ones it was inserted with.
C13_SchoolsInsertOnlyByCreator ==
    [][/\ (resp'.op = "insert_school" /\ resp'.count = 1) =>
             (resp'.uid # NULL /\ resp'.row.created_by = resp'.uid)
       /\ (resp'.op = "insert_school"
               /\ (resp'.uid = NULL \/ resp'.row.created_by # resp'.uid)) =>
             (resp'.status = PolicyError /\ resp'.count = 0 /\ schools' = schools)
       /\ resp'.op \in {"update_school", "delete_school"} =>
             (resp'.count = 0 /\ tables' = tables)
       /\ \A x \in schools :
             /\ resp'.op \notin PrivilegedOps => x \in schools'
             /\ \A y \in schools' :
                   y.id = x.id => (y.name = x.name /\ y.location = x.location)]_vars

\* The creator of a school, signed in, tried to rename it; nothing was written.
C13_Witness ==
    /\ resp.op = "update_school"
    /\ resp.count = 0
    /\ resp.uid \in users
    /\ \E x \in schools :
          x.id = resp.id /\ x.created_by = resp.uid /\ x.name # resp.row.name

\* ------------------------------------------------------------------------ C14
\* The tables whose rows have an owner, with the names of their requests.
OwnedTables == {"user_schools", "posts", "comments", "votes"}

RowsOf(t) ==
    CASE t = "user_schools" -> user_schools
      [] t = "posts" -> posts
      [] t = "comments" -> comments
      [] t = "votes" -> votes

InsertOp(t) ==
    CASE t = "user_schools" -> "insert_user_school"
      [] t = "posts" -> "insert_post"
      [] t = "comments" -> "insert_comment"
      [] t = "votes" -> "insert_vote"

UpdateOp(t) ==
    CASE t = "user_schools" -> "update_user_school"
      [] t = "posts" -> "update_post"
      [] t = "comments" -> "update_comment"
      [] t = "votes" -> "update_vote"

DeleteOp(t) ==
    CASE t = "user_schools" -> "delete_user_school"
      [] t = "posts" -> "delete_post"
      [] t = "comments" -> "delete_comment"
      [] t = "votes" -> "delete_vote"

WriteOps == {InsertOp(t) : t \in OwnedTables} \cup {UpdateOp(t) : t \in OwnedTables}
                \cup {DeleteOp(t) : t \in OwnedTables}

\* C14: on user_schools, posts, comments and votes an insert writes its row
\* only for an authenticated caller whose id is the row's user_id; an update
\* or a delete writes only when the row it names has the caller's id as
\* user_id, and that is the only way a row of these tables changes or goes,
\* apart from the comments and votes that go with their deleted post.  A
\* request by a caller with no session changes no table.  A read of any table
\* by any caller succeeds with every row of the table.
C14_OwnerOnlyWrites ==
    [][/\ \A t \in OwnedTables :
             /\ (resp'.op = InsertOp(t) /\ resp'.count = 1) =>
                   (resp'.uid # NULL /\ resp'.row.user_id = resp'.uid)
             /\ (resp'.op \in {UpdateOp(t), DeleteOp(t)} /\ resp'.count > 0) =>
                   /\ resp'.uid # NULL
                   /\ \E r \in RowsOf(t) : r.id = resp'.id /\ r.user_id = resp'.uid
             /\ \A r \in RowsOf(t) :
                   r \notin RowsOf(t)' =>
                       \/ /\ resp'.op \in {UpdateOp(t), DeleteOp(t)}
                          /\ resp'.id = r.id
                          /\ resp'.uid = r.user_id
                       \/ /\ t \in {"comments", "votes"}
                          /\ resp'.op = "delete_post"
                          /\ resp'.count = 1
                          /\ r.post_id = resp'.id
       /\ (resp'.op \in WriteOps /\ resp'.uid = NULL) =>
             (resp'.count = 0 /\ tables' = tables)
       /\ \A t \in TableNames :
             resp'.op = SelectOp(t) =>
                 /\ resp'.status = "ok"
                 /\ resp'.row = Visible(NULL, t)
                 /\ resp'.row = (CASE t = "schools" -> schools
                                   [] t = "profiles" -> profiles
                                   [] OTHER -> RowsOf(t))
                 /\ tables' = tables]_vars

\* After an owner edited their comment and their link, a caller with no session
\* read the votes and was returned the one vote there is.
C14_Witness ==
    /\ resp.op = "select_votes"
    /\ resp.uid = NULL
    /\ resp.count = 1
    /\ resp.row = votes
    /\ \E c \in comments, l \in user_schools : c.content = "edited" /\ l.status = "past"

\* ------------------------------------------------------------------------ C15
\* C15: a profile insert writes its row only for an authenticated caller whose
\* id is the row's id; a profile update writes only the caller's own row and
\* leaves its id the caller's; a profile delete by any caller, the owner
\* included, writes nothing.  Through the policy-gated requests no profile id
\* leaves the table: a profile goes only with its identity (or by a delete
\* that bypasses row level security).
C15_ProfilesOwnerOnly ==
    [][/\ (resp'.op = "insert_profile" /\ resp'.count = 1) =>
             (resp'.uid # NULL /\ resp'.row.id = resp'.uid)
       /\ (resp'.op = "update_profile" /\ resp'.count = 1) =>
             (resp'.uid # NULL /\ resp'.id = resp'.uid /\ resp'.row.id = resp'.uid)
       /\ resp'.op = "delete_profile" => (resp'.count = 0 /\ tables' = tables)
       /\ \A r \in profiles :
             /\ (r \notin profiles' /\ resp'.op \notin PrivilegedOps) =>
                   /\ resp'.op = "update_profile"
                   /\ resp'.id = r.id
                   /\ resp'.uid = r.id
             /\ r.id \notin Ids(profiles') =>
                   \/ resp'.op = "delete_user" /\ resp'.id = r.id /\ r.id \notin users'
                   \/ resp'.op = "admin_delete_profile" /\ resp'.id = r.id]_vars

\* A signed-in user tried to delete their own profile; nothing was written and
\* the profile is there.
C15_Witness ==
    /\ resp.op = "delete_profile"
    /\ resp.uid = resp.id
    /\ resp.uid \in users
    /\ resp.count = 0
    /\ resp.id \in Ids(profiles)

\* ------------------------------------------------------------------------ C16
\* The blanks of a run.
Blanks(r) == IF r.ch = " " THEN r.n ELSE 0

\* The length of t without the blanks at its two ends.
TrimmedLen(t) ==
    IF t = <<>> THEN 0
    ELSE IF Len(t) = 1 THEN TextLen(t) - Blanks(t[1])
    ELSE TextLen(t) - Blanks(t[1]) - Blanks(t[Len(t)])

\* The checks of the create-post form on the state the form is in.
FormIsValid ==
    /\ form.userId # NULL
    /\ TrimmedLen(form.title) >= 5 /\ TrimmedLen(form.title) <= 200
    /\ TrimmedLen(form.content) >= 20 /\ TrimmedLen(form.content) <= 5000
    /\ form.selectedSchoolId # NULL
    /\ form.postType \in {"pro", "con", "general"}

\* This step is a run of handleSubmit up to its await.
SubmitStep == step'.handler = "handleSubmit" /\ (step' # step \/ form' # form)

\* C16: handleSubmit issues the posts insert exactly when the user id is known,
\* the trimmed title has 5 to 200 characters, the trimmed content 20 to 5000, a
\* school is selected and the post type is pro, con or general; the insert
\* carries the trimmed values.  Otherwise it issues no request, raises one
\* error notification, and leaves the form, the location and the store as they
\* were.  Posts are inserted by no other step of the form.
C16_SubmitOnlyWhenValid ==
    [][/\ SubmitStep =>
             IF FormIsValid
             THEN /\ step'.request = "insert_post"
                  /\ step'.toasts = <<>>
                  /\ \E m \in replies' \ replies :
                        /\ m.for = "handleSubmit"
                        /\ m.reply.op = "insert_post"
                        /\ m.reply.status # "fetch_error" =>
                              /\ m.reply = resp'
                              /\ m.reply.row.user_id = form.userId
                              /\ m.reply.row.school_id = form.selectedSchoolId
                              /\ m.reply.row.post_type = form.postType
                              /\ TextLen(m.reply.row.title) = TrimmedLen(form.title)
                              /\ TextLen(m.reply.row.content) = TrimmedLen(form.content)
             ELSE /\ step'.request = "none"
                  /\ Len(step'.toasts) = 1
                  /\ step'.toasts[1].kind = "error"
                  /\ form' = form
                  /\ pathname' = pathname
                  /\ replies' = replies
                  /\ dbVars' = dbVars
       /\ posts' # posts => (SubmitStep /\ FormIsValid)]_vars

\* A signed-in user with a school selected and a content long enough submitted
\* a title of 4 characters between blanks: one notification, no request, the
\* form as it was.
C16_Witness ==
    /\ step.handler = "handleSubmit"
    /\ step.request = "none"
    /\ step.toasts = <<ToastError("Title must be at least 5 characters")>>
    /\ form.userId # NULL
    /\ form.selectedSchoolId # NULL
    /\ TextLen(form.title) = 6
    /\ TrimmedLen(form.content) = 20
    /\ ~form.loading
    /\ posts = {}

\* ------------------------------------------------------------------------ C18
\* This step is a run of handleAddSchool up to its await / after its await.
AddSchoolStep == step'.handler = "handleAddSchool" /\ (step' # step \/ form' # form)

AddSchoolDoneStep == step'.handler = "handleAddSchoolDone" /\ form' # form

\* C18 (as claimed): after a rejected school insert handleAddSchool clears the
\* loading flag and leaves every other field of the form as it is; after a
\* successful one it appends the returned school to the form's list, selects
\* it, closes the new-school panel and clears the two inputs; with a blank name
\* or an unknown user id it issues no request.
C18_AddSchoolUpdatesForm ==
    [][/\ AddSchoolDoneStep =>
             \E m \in replies \ replies' :
                 /\ m.for = "handleAddSchool"
                 /\ IF m.reply.status # "ok"
                    THEN form' = [form EXCEPT !.loading = FALSE]
                    ELSE form' = [form EXCEPT !.loading = FALSE,
                                              !.schools = Append(form.schools, m.reply.row),
                                              !.selectedSchoolId = m.reply.row.id,
                                              !.showNewSchool = FALSE,
                                              !.newSchoolName = <<>>,
                                              !.newSchoolLocation = <<>>]
       /\ (AddSchoolStep /\ (TrimmedLen(form.newSchoolName) = 0 \/ form.userId = NULL)) =>
             /\ step'.request = "none"
             /\ replies' = replies
             /\ dbVars' = dbVars
             /\ form' = form]_vars

\* ------------------------------------------------------------------------ C17
PageLoads ==
    {"fetchData", "fetchSchoolData", "SchoolDetail.getCurrentUser",
     "fetchProfileData.getUser", "fetchProfileData"}

ErrorToasts(s) == {i \in DOMAIN s.toasts : s.toasts[i].kind = "error"}

\* C17 (as claimed): when the answers to the requests of an initial load of
\* Home, Profile or SchoolDetail arrive and one of the requests has failed, the
\* page raises exactly one error notification and does not issue the request
\* again.
C17_FailedRequestNotifiedOnce ==
    [][\A m \in replies \ replies' :
          (m.for \in PageLoads /\ step'.handler = m.for /\ Thrown(m.reply)) =>
              /\ Cardinality(ErrorToasts(step')) = 1
              /\ \A n \in replies' \ replies : n.for # m.for]_vars

\* ------------------------------------------------------------------------ C19
\* C19: on user_schools, posts, comments and votes no request changes the
\* user_id of a row, and a row that a request inserts has the caller's identity
\* as its user_id: an update that sets user_id to another identity is refused,
\* by its owner as by anyone else.
C19_UserIdIsTheInserter ==
    [][\A t \in OwnedTables :
          \A new \in RowsOf(t)' :
              IF \E old \in RowsOf(t) : old.id = new.id
              THEN \A old \in RowsOf(t) : old.id = new.id => new.user_id = old.user_id
              ELSE /\ resp'.op = InsertOp(t)
                   /\ resp'.uid # NULL
                   /\ new.user_id = resp'.uid]_vars

\* The owner of a row of each table has asked to give it to another identity
\* and was refused.
ReassignRefused(t) ==
    /\ resp.op = UpdateOp(t)
    /\ resp.status = PolicyError
    /\ resp.row.user_id # resp.uid
    /\ \E r \in RowsOf(t) : r.id = resp.id /\ r.user_id = resp.uid

C19_Witness == ReassignRefused("votes")

C19_WitnessPosts == ReassignRefused("posts")

C19_WitnessComments == ReassignRefused("comments")

C19_WitnessLinks == ReassignRefused("user_schools")

\* ------------------------------------------------------------------------ C20
\* Both the subscription and getSession have answered the mounted guard.
GuardSettled == guard.mounted /\ ~guard.loading /\ inflight = {}

\* This step is a navigate("/auth") of the guard: the visitor leaves the page
\* they asked for without asking for another.
SentToAuth == pathname # AuthPath /\ pathname' = AuthPath /\ requested' = requested

\* C20 (as claimed): in whatever order the auth event and the getSession
\* result are delivered, once both are delivered the session held by the
\* guard is the provider's current session, and a visitor who is signed in is
\* never sent to /auth.
C20_GuardFollowsProvider ==
    [][/\ GuardSettled' => guard'.session = authSession'
       /\ SentToAuth => authSession = NULL]_vars

\* ------------------------------------------------------------------------ C21
\* This step delivers a session result to the guard of the page asked for.
GuardDelivery(m) ==
    /\ m \in inflight
    /\ m \notin inflight'
    /\ requested' = requested
    /\ guard' # Mounted

\* C21: AuthGuard renders its children only while it holds a session; it
\* leaves the loading placeholder only when a session result arrives, for its
\* children if the result is a session and for /auth if it is none; a result
\* of no session that arrives while the children are shown stops them being
\* rendered and makes the location /auth; and after a sign-out the children
\* do stop being rendered.
C21_ChildrenOnlyWithSession ==
    /\ [][/\ Renders' = "children" => guard'.session # NULL
          /\ (Renders = "loading" /\ Renders' # "loading" /\ requested' = requested) =>
                \E m \in inflight :
                    /\ GuardDelivery(m)
                    /\ IF m.session = NULL
                       THEN Renders' = "none" /\ pathname' = AuthPath
                       ELSE Renders' = "children" /\ guard'.session = m.session
          /\ (Renders = "children" /\ \E m \in inflight : GuardDelivery(m) /\ m.session = NULL) =>
                Renders' # "children" /\ pathname' = AuthPath]_vars
    /\ (Renders = "children" /\ authSession = NULL) ~> (Renders # "children")

\* Home's handleLogout has run while the guard shows Home: the session is gone
\* and the event that says so is on its way to the guard.
C21_Witness ==
    /\ Renders = "children"
    /\ MatchRoute(pathname) = "Home"
    /\ authSession = NULL
    /\ guard.session # NULL
    /\ \E m \in inflight : m.kind = "event" /\ m.session = NULL

\* ------------------------------------------------------------------------ C22
\* The parent rows that a row of table t names exist.
ParentsExist(t, row) ==
    CASE t = "user_schools" -> row.user_id \in Ids(profiles) /\ row.school_id \in Ids(schools)
      [] t = "posts" -> row.user_id \in Ids(profiles) /\ row.school_id \in Ids(schools)
      [] t = "comments" -> row.post_id \in Ids(posts) /\ row.user_id \in Ids(profiles)
      [] t = "votes" -> row.post_id \in Ids(posts) /\ row.user_id \in Ids(profiles)

\* C22: in every reachable state every post and every user_schools row names
\* an existing profile and an existing school, and every comment and every
\* vote names an existing post and an existing profile; an insert whose row
\* names a missing parent is rejected and leaves its table as it was.
C22_ReferentialIntegrity ==
    /\ [](\A t \in OwnedTables : \A r \in RowsOf(t) : ParentsExist(t, r))
    /\ [][\A t \in OwnedTables :
             (resp'.op = InsertOp(t) /\ ~ParentsExist(t, resp'.row)) =>
                 /\ resp'.status # "ok"
                 /\ RowsOf(t)' = RowsOf(t)]_vars

\* An identity with a profile asked to vote on a post that was deleted, and
\* the foreign key refused it; a vote on a post that exists is there.
C22_Witness ==
    /\ resp.op = "insert_vote"
    /\ resp.status = "foreign_key_violation"
    /\ resp.uid = resp.row.user_id
    /\ resp.row.user_id \in Ids(profiles)
    /\ resp.row.post_id \notin Ids(posts)
    /\ votes # {}

====
